---- MODULE Spec2Model ----
(***************************************************************************)
(* Model of the dashboard unification and cleaning core:                   *)
(*   - DashboardExtractor.extract_dashboard and its two helpers            *)
(*     (_ensure_unified_schema, _fail_result),                             *)
(*   - the result shapes of the Power BI and Tableau adapters,             *)
(*   - DataCleaner.normalize_column_names.                                 *)
(*                                                                         *)
(* Python values of mixed type are tagged records ([tag |-> ...]) so that  *)
(* a string, a dict, a list and None can sit in the same container.  A     *)
(* Python dict whose keys matter (a result payload, a component) is a TLA+ *)
(* function whose DOMAIN is the set of keys present.                       *)
(***************************************************************************)
EXTENDS Integers, Sequences, FiniteSets, TLC

VARIABLES
    pc,          \* position of the current extract_dashboard call
    source,      \* argument source
    auth_type,   \* argument auth_type
    drill_state, \* argument drill_state (None when the caller gave none)
    kwargs,      \* the keyword arguments the extractor reads (use_ocr)
    conn,        \* what connect_bi_dashboard returned
    raw,         \* what the adapter returned (local variable result)
    result,      \* the payload returned to the caller
    invoked,     \* adapter methods called during the current call
    raised,      \* the exception raised inside the try block, or None
    escaped,     \* TRUE when an exception left extract_dashboard
    trail,       \* positions the current call went through, in order
    earlier,     \* an earlier call of extract_dashboard: what went in and came out
    ocr_result,  \* what the OCR helper answered to a public adapter, or None
    columns,     \* df.columns of the frame handed to normalize_column_names
    once,        \* columns after one application
    twice,       \* columns after applying it to its own output
    cstep,       \* position of the column-normalization run
    frame,       \* the DataFrame df inside the cleaner
    df0,         \* the DataFrame that was handed to the cleaner
    strategy,    \* self.missing_value_strategy
    pandas,      \* major version of the installed pandas
    stage,       \* position of the cleaning run
    cerror,      \* the exception the cleaning run raised, or None
    board,       \* the dashboard handed to clean_unified_dashboard_data and what came back
    site,        \* the dashboard the endpoints are asked about
    tpc,         \* position of the current endpoint call
    call,        \* the endpoint called and its arguments
    dashboard,   \* the endpoint's local variable dashboard
    sent,        \* keyword arguments of the endpoint's second extraction
    response,    \* what the endpoint returned, or the exception it raised
    prev,        \* the previous endpoint call and its outcome
    race         \* the locals of each of two handlers that run side by side

vars == <<pc, source, auth_type, drill_state, kwargs, conn, raw, result,
          invoked, raised, escaped, trail, earlier, ocr_result,
          columns, once, twice, cstep,
          frame, df0, strategy, pandas, stage, cerror, board,
          site, tpc, call, dashboard, sent, response, prev, race>>

extractVars == <<pc, source, auth_type, drill_state, kwargs, conn, raw, result,
                 invoked, raised, escaped, trail, earlier, ocr_result>>

columnVars == <<columns, once, twice, cstep>>

cleanVars == <<frame, df0, strategy, pandas, stage, cerror, board>>

toolVars == <<site, tpc, call, dashboard, sent, response, prev, race>>

----------------------------------------------------------------------------
(* Bounds *)

MaxItems == 2         \* elements found in a scraped page or an API report
MaxNumbers == 1       \* numbers the OCR pass returns
MaxCols == 3          \* headers of a frame
MaxHeaderLen == 1     \* characters of a generated header

----------------------------------------------------------------------------
(* Python values *)

None == [tag |-> "none"]

Str(s) == [tag |-> "str", val |-> s]

\* a number; val is its decimal text
Num(n) == [tag |-> "num", val |-> n]

List(items) == [tag |-> "list", items |-> items]

\* an insertion-ordered dict name -> value whose keys are data
Map(ks, vs) == [tag |-> "map", keys |-> ks, vals |-> vs]

EmptyList == List(<<>>)

EmptyMap == Map(<<>>, <<>>)

\* a dict with fixed attribute keys (a component, a filter, a visual)
Dict(f) == [tag |-> "dict", f |-> f]

IsDict(v) == v.tag = "dict"

\* len(container) == 0
IsEmpty(v) ==
    CASE v.tag = "list" -> v.items = <<>>
      [] v.tag = "map" -> v.keys = <<>>
      [] OTHER -> FALSE

\* dict.get(key, default)
Get(d, key, default) == IF key \in DOMAIN d THEN d[key] ELSE default

----------------------------------------------------------------------------
(* Drill state: mapping visual name -> ordered list of levels *)

Visuals == {"v1", "v2"}

Levels == {"L1", "L2"}

DS(dom, at) == [tag |-> "ds", dom |-> dom, at |-> [v \in Visuals |-> IF v \in dom THEN at[v] ELSE <<>>]]

EmptyDS == DS({}, [v \in Visuals |-> <<>>])

\* the prior drill states a caller passes
DrillStates ==
    {None, EmptyDS}
    \cup {DS({"v1"}, [v \in Visuals |-> <<l>>]) : l \in Levels}

\* drill_state or {}
OrEmpty(ds) == IF ds = None \/ (ds.tag = "ds" /\ ds.dom = {}) THEN EmptyDS ELSE ds

----------------------------------------------------------------------------
(* Adapter result shapes.  A scraped page is abstracted to the number of   *)
(* elements of each kind the adapter's loops visit; the attributes that    *)
(* are copied through unchanged (rows, options, src, ...) are one value.   *)

KpiNames == <<"kpi_1", "kpi_2", "kpi_3", "kpi_4">>

FilterNames == <<"f1", "f2", "f3", "f4", "f5", "f6">>

OcrNumbers == <<"7", "8", "9", "10">>

\* pages: how many <table>, digit-bearing heading, <select>, <input>, <img>,
\* <svg> and <div>/<section> elements the page holds, MaxItems in total
Pages ==
    {p \in [tables : 0..MaxItems, kpitags : 0..MaxItems, selects : 0..MaxItems,
            inputs : 0..MaxItems, imgs : 0..MaxItems, svgs : 0..MaxItems,
            blocks : 0..MaxItems] :
        p.tables + p.kpitags + p.selects + p.inputs + p.imgs + p.svgs + p.blocks <= MaxItems}

\* OCRHelper.extract_from_url: {status, numbers, text, error}
OcrResults ==
    {[status |-> "failed", numbers |-> <<>>, error |-> Str("ocr error")]}
    \cup {[status |-> "success", numbers |-> SubSeq(OcrNumbers, 1, n), error |-> None] : n \in 0..MaxNumbers}

Rep(n, x) == [i \in 1..n |-> x]

TableauTableComp == Dict([type |-> "table", attrs |-> Str("headers,rows"), highlights |-> <<>>])

TableauKpiComp(i, num) == Dict([type |-> "kpi", name |-> KpiNames[i], value |-> num, highlights |-> <<>>])

TableauSelectComp == Dict([type |-> "filter", filter_type |-> "dropdown", attrs |-> Str("options"), highlights |-> <<>>])

TableauInputComp(i) == Dict([type |-> "filter", filter_type |-> "input", name |-> FilterNames[i], value |-> Str("x"), highlights |-> <<>>])

TableauImgComp == Dict([type |-> "visual", visual_type |-> "image", attrs |-> Str("src,alt"), highlights |-> <<>>])

TableauSvgComp == Dict([type |-> "visual", visual_type |-> "svg", attrs |-> Str("content"), highlights |-> <<>>])

TableauLayoutComp(n) == Dict([type |-> "layout", sections |-> n, highlights |-> <<>>])

TableauWidgetComp == Dict([attrs |-> Str("id,class,text"), highlights |-> <<>>])

\* the kpis list and the kpi components of the public Tableau adapter
TableauKpis(page, use_ocr, ocr) ==
    IF use_ocr
    THEN IF ocr.status = "success"
         THEN [i \in 1..Len(ocr.numbers) |-> Num(ocr.numbers[i])]
         ELSE <<>>
    ELSE [i \in 1..page.kpitags |-> Str("text with digits")]

\* TableauExtractor.extract_public_dashboard, the path that returns extracted_data
TableauPublicSuccess(page, use_ocr, ocr, ds) ==
    LET kpis == TableauKpis(page, use_ocr, ocr)
        comps ==
            Rep(page.tables, TableauTableComp)
            \o [i \in 1..Len(kpis) |-> TableauKpiComp(i, kpis[i])]
            \o Rep(page.selects, TableauSelectComp)
            \o [i \in 1..page.inputs |-> TableauInputComp(i)]
            \o Rep(page.imgs, TableauImgComp)
            \o Rep(page.svgs, TableauSvgComp)
            \o <<TableauLayoutComp(page.blocks)>>
            \o Rep(page.blocks, TableauWidgetComp)
    IN  [status |-> "success",
         source |-> "tableau",
         auth_type |-> "public",
         tables |-> List(Rep(page.tables, Dict([attrs |-> Str("headers,rows")]))),
         kpis |-> List(kpis),
         filters |-> List(Rep(page.selects, Dict([type |-> "dropdown", attrs |-> Str("options")]))
                          \o [i \in 1..page.inputs |-> Dict([type |-> "input", name |-> FilterNames[i], value |-> Str("x")])]),
         visuals |-> List(Rep(page.imgs, Dict([type |-> "image", attrs |-> Str("src,alt")]))
                          \o Rep(page.svgs, Dict([type |-> "svg", attrs |-> Str("content")]))),
         layout |-> Dict([sections |-> page.blocks]),
         components |-> List(comps),
         html_text |-> "text",
         drill_state |-> OrEmpty(ds),
         error |-> IF use_ocr /\ ocr.status # "success" THEN Str("OCR failed: ocr error") ELSE None]

\* TableauExtractor.extract_public_dashboard, the two paths that report failure
TableauPublicFailed(ds, err) ==
    [status |-> "failed", data |-> EmptyMap, drill_state |-> OrEmpty(ds), error |-> err]

\* every result extract_public_dashboard can return for these arguments
TableauPublicResults(use_ocr, ds) ==
    {TableauPublicSuccess(page, use_ocr, ocr, ds) : page \in Pages, ocr \in OcrResults}
    \cup {TableauPublicFailed(ds, Str(m)) : m \in {"fetch failed", "exception"}}

\* TableauExtractor.extract_private_dashboard
TableauPrivateResults(ds) ==
    {[status |-> "success", source |-> "tableau", auth_type |-> "private",
      data |-> Str("csv"), drill_state |-> OrEmpty(ds), error |-> None],
     [status |-> "failed", data |-> EmptyMap, error |-> Str("exception")]}

TableNames == <<"table_1", "table_2", "table_3", "table_4">>

VisualNames == <<"v1", "v2", "v3", "v4">>

SvgNames == <<"svg_1", "svg_2", "svg_3", "svg_4", "svg_5", "svg_6", "svg_7", "svg_8">>

\* the report JSON of the Power BI REST API: how many tables, kpis, filters
\* and visuals it lists, MaxItems in total
Reports ==
    {r \in [tables : 0..MaxItems, kpis : 0..MaxItems, filters : 0..MaxItems,
            visuals : 0..MaxItems] :
        r.tables + r.kpis + r.filters + r.visuals <= MaxItems}

PowerBITableComp == Dict([type |-> "table", attrs |-> Str("fields,rows"), highlights |-> <<>>])

PowerBIKpiComp(num) == Dict([type |-> "kpi", value |-> num, attrs |-> Str("description"), highlights |-> <<>>])

PowerBIVisualComp(kind) == Dict([type |-> "visual", visual_type |-> kind, attrs |-> Str("fields,metadata"), highlights |-> <<>>])

\* PowerBIExtractor.extract_private_dashboard, the path that returns status success:
\* components is a dict keyed by component name
PowerBIPrivateSuccess(report, ds) ==
    LET tnames == SubSeq(TableNames, 1, report.tables)
        knames == SubSeq(KpiNames, 1, report.kpis)
        vnames == SubSeq(VisualNames, 1, report.visuals)
    IN  [status |-> "success",
         source |-> "powerbi",
         auth_type |-> "private",
         tables |-> Map(tnames, Rep(report.tables, Dict([attrs |-> Str("fields,rows")]))),
         kpis |-> List([i \in 1..report.kpis |-> Dict([name |-> KpiNames[i], value |-> Num(OcrNumbers[i])])]),
         filters |-> Map(SubSeq(FilterNames, 1, report.filters), Rep(report.filters, Str("x"))),
         visuals |-> Map(vnames, Rep(report.visuals, Dict([type |-> "chart", attrs |-> Str("fields,metadata")]))),
         layout |-> EmptyMap,
         components |-> Map(tnames \o knames \o vnames,
                            Rep(report.tables, PowerBITableComp)
                            \o [i \in 1..report.kpis |-> PowerBIKpiComp(Num(OcrNumbers[i]))]
                            \o Rep(report.visuals, PowerBIVisualComp("chart"))),
         drill_state |-> OrEmpty(ds),
         error |-> None]

\* PowerBIExtractor.extract_private_dashboard, the except path
PowerBIPrivateFailed(err) ==
    [status |-> "failed", tables |-> EmptyMap, kpis |-> EmptyList, filters |-> EmptyMap,
     visuals |-> EmptyMap, layout |-> EmptyMap, components |-> EmptyMap,
     error |-> err]

PowerBIPrivateResults(ds) ==
    {PowerBIPrivateSuccess(report, ds) : report \in Reports}
    \cup {PowerBIPrivateFailed(Str("exception"))}

\* PowerBIExtractor.extract_public_dashboard, the path that returns status success
PowerBIPublicSuccess(page, use_ocr, ocr, ds) ==
    LET tnames == SubSeq(TableNames, 1, page.tables)
        nums == IF use_ocr /\ ocr.status = "success" THEN ocr.numbers ELSE <<>>
        knames == SubSeq(KpiNames, 1, Len(nums))
        ocrFailed == use_ocr /\ ocr.status # "success"
        snames == SubSeq(FilterNames, 1, page.selects)
        inames == SubSeq(FilterNames, page.selects + 1, page.selects + page.inputs)
        vnames == SubSeq(VisualNames, 1, page.imgs)
        gnames == SubSeq(SvgNames, page.imgs + 1, page.imgs + page.svgs)
    IN  [status |-> "success",
         source |-> "powerbi",
         auth_type |-> "public",
         tables |-> Map(tnames, Rep(page.tables, Dict([attrs |-> Str("headers,rows")]))),
         kpis |-> List([i \in 1..Len(nums) |-> Dict([name |-> KpiNames[i], value |-> Num(nums[i])])]),
         filters |-> Map(snames \o inames, Rep(page.selects, Str("options")) \o Rep(page.inputs, Str("x"))),
         visuals |-> Map(vnames \o gnames,
                         Rep(page.imgs, Dict([type |-> "image", attrs |-> Str("src,alt")]))
                         \o Rep(page.svgs, Dict([type |-> "svg", attrs |-> Str("content")]))),
         layout |-> Dict([sections |-> page.blocks]),
         components |-> Map(tnames \o knames \o (IF ocrFailed THEN <<"ocr_error">> ELSE <<>>)
                                \o snames \o inames \o vnames \o gnames,
                            Rep(page.tables, PowerBITableComp)
                            \o [i \in 1..Len(nums) |-> Dict([type |-> "kpi", value |-> Num(nums[i]), highlights |-> <<>>])]
                            \o (IF ocrFailed THEN <<Dict([type |-> "error", message |-> ocr.error, highlights |-> <<>>])>> ELSE <<>>)
                            \o Rep(page.selects, Dict([type |-> "filter", attrs |-> Str("options"), highlights |-> <<>>]))
                            \o Rep(page.inputs, Dict([type |-> "input", value |-> Str("x"), highlights |-> <<>>]))
                            \o Rep(page.imgs, PowerBIVisualComp("image"))
                            \o Rep(page.svgs, PowerBIVisualComp("svg"))),
         drill_state |-> OrEmpty(ds),
         error |-> None]

\* PowerBIExtractor.extract_public_dashboard, the two paths that report failure
PowerBIPublicFailed(ds, err) ==
    [status |-> "failed", tables |-> EmptyMap, kpis |-> EmptyList, filters |-> EmptyMap,
     visuals |-> EmptyMap, layout |-> EmptyMap, components |-> EmptyMap,
     drill_state |-> OrEmpty(ds), error |-> err]

PowerBIPublicResults(use_ocr, ds) ==
    {PowerBIPublicSuccess(page, use_ocr, ocr, ds) :
        page \in {p \in Pages : p.kpitags = 0}, ocr \in OcrResults}
    \cup {PowerBIPublicFailed(ds, Str(m)) : m \in {"fetch failed", "exception"}}

----------------------------------------------------------------------------
(* The unifier *)

UnifiedFields ==
    {"status", "source", "auth_type", "tables", "kpis", "filters", "visuals",
     "layout", "components", "html_text", "drill_state", "error"}

\* if "highlights" not in comp: comp["highlights"] = []
InjectHighlights(comp) ==
    IF IsDict(comp) /\ "highlights" \notin DOMAIN comp.f
    THEN Dict([k \in DOMAIN comp.f \cup {"highlights"} |->
                 IF k = "highlights" THEN <<>> ELSE comp.f[k]])
    ELSE comp

\* mutant: updated_components.append(comp) indented under the
\* `if "highlights" not in comp` branch
UpdatedComponentsAppendIndented(components) ==
    LET elems == CASE components.tag = "list" -> components.items
                   [] components.tag = "map" -> [i \in 1..Len(components.keys) |-> Str(components.keys[i])]
                   [] OTHER -> <<>>
        lacking == SelectSeq(elems, LAMBDA c : IsDict(c) /\ "highlights" \notin DOMAIN c.f)
    IN  [i \in 1..Len(lacking) |-> InjectHighlights(lacking[i])]

\* the loop `for comp in components`: a list yields its elements, a dict
\* yields its keys
Iterate(components) ==
    CASE components.tag = "list" -> components.items
      [] components.tag = "map" -> [i \in 1..Len(components.keys) |-> Str(components.keys[i])]
      [] OTHER -> <<>>

UpdatedComponents(components) ==
    LET elems == Iterate(components)
    IN  [i \in 1..Len(elems) |-> InjectHighlights(elems[i])]

\* mutant: the extractor remembers the drill_state of a call and uses it
\* when a later call gives none (self.drill_state = drill_state or self.drill_state)
EnsureUnifiedSchemaRemembers(res, src, auth, ds) ==
    [status |-> Get(res, "status", "success"),
     source |-> src,
     auth_type |-> auth,
     tables |-> Get(res, "tables", EmptyList),
     kpis |-> Get(res, "kpis", EmptyList),
     filters |-> Get(res, "filters", EmptyList),
     visuals |-> Get(res, "visuals", EmptyList),
     layout |-> Get(res, "layout", EmptyMap),
     components |-> List(UpdatedComponents(Get(res, "components", EmptyList))),
     html_text |-> Get(res, "html_text", ""),
     drill_state |-> IF ds = None /\ earlier # None /\ earlier.drill_state # None
                     THEN earlier.drill_state
                     ELSE Get(res, "drill_state", OrEmpty(ds)),
     error |-> Get(res, "error", None)]

\* mutant: "error": None instead of result.get("error", None)
EnsureUnifiedSchemaErrorDropped(res, src, auth, ds) ==
    [status |-> Get(res, "status", "success"),
     source |-> src,
     auth_type |-> auth,
     tables |-> Get(res, "tables", EmptyList),
     kpis |-> Get(res, "kpis", EmptyList),
     filters |-> Get(res, "filters", EmptyList),
     visuals |-> Get(res, "visuals", EmptyList),
     layout |-> Get(res, "layout", EmptyMap),
     components |-> List(UpdatedComponents(Get(res, "components", EmptyList))),
     html_text |-> Get(res, "html_text", ""),
     drill_state |-> Get(res, "drill_state", OrEmpty(ds)),
     error |-> None]

\* DashboardExtractor._ensure_unified_schema
EnsureUnifiedSchema(res, src, auth, ds) ==
    [status |-> Get(res, "status", "success"),
     source |-> src,
     auth_type |-> auth,
     tables |-> Get(res, "tables", EmptyList),
     kpis |-> Get(res, "kpis", EmptyList),
     filters |-> Get(res, "filters", EmptyList),
     visuals |-> Get(res, "visuals", EmptyList),
     layout |-> Get(res, "layout", EmptyMap),
     components |-> List(UpdatedComponents(Get(res, "components", EmptyList))),
     html_text |-> Get(res, "html_text", ""),
     drill_state |-> Get(res, "drill_state", OrEmpty(ds)),
     error |-> Get(res, "error", None)]

\* mutant: the error argument is not stored
FailResultErrorLost(src, auth, err) ==
    [status |-> "failed",
     source |-> src,
     auth_type |-> auth,
     tables |-> EmptyList,
     kpis |-> EmptyList,
     filters |-> EmptyList,
     visuals |-> EmptyList,
     layout |-> EmptyMap,
     components |-> EmptyList,
     html_text |-> "",
     error |-> None]

\* DashboardExtractor._fail_result
FailResult(src, auth, err) ==
    [status |-> "failed",
     source |-> src,
     auth_type |-> auth,
     tables |-> EmptyList,
     kpis |-> EmptyList,
     filters |-> EmptyList,
     visuals |-> EmptyList,
     layout |-> EmptyMap,
     components |-> EmptyList,
     html_text |-> "",
     error |-> err]

----------------------------------------------------------------------------
(* The connector, as extract_dashboard sees it.  connect_bi_dashboard is   *)
(* the seam the tests replace; its answer is the environment's choice      *)
(* among the payloads the connector builds.                                *)

Sources == {"powerbi", "tableau", "", "looker"}

AuthTypes == {"private", "public", "sso"}

KwargsSet == [use_ocr : {"absent", "true", "false"}]

\* kwargs.get("use_ocr", True)
UseOcr(kw) == kw.use_ocr # "false"

\* connect_bi_dashboard reaches a vendor connector: the source is given or
\* detected from the url, and the auth_type is one the dispatch knows
ConnectorDispatches(src, auth) ==
    /\ src \in {"powerbi", "tableau", ""}
    /\ auth \in {"private", "public"}

\* _normalize_result, status success
ConnSuccess(src, auth) ==
    [status |-> "success", source |-> src, auth_type |-> auth,
     client |-> Str("client"), metadata |-> Str("workspace_id/site"), error |-> None]

\* _normalize_result, status failed, and the except path of connect_bi_dashboard
ConnFailed(src, auth, err) ==
    [status |-> "failed", source |-> src, auth_type |-> auth,
     client |-> None, metadata |-> EmptyMap, error |-> err]

ConnErrors ==
    {Str("auth expired"),
     Dict([type |-> "exception", message |-> "connect raised"]),
     Dict([type |-> "unknown", message |-> "Connection failed"])}

\* mutant: if conn["status"] == "error"
ConnectionFailedWrongLiteral(c) == c.status = "error"

\* if conn["status"] != "success"
ConnectionFailed(c) == c.status # "success"

----------------------------------------------------------------------------
(* The dispatch of extract_dashboard to an adapter method *)

Methods ==
    {"powerbi.extract_private_dashboard", "powerbi.extract_public_dashboard",
     "tableau.extract_private_dashboard", "tableau.extract_public_dashboard"}

\* the if/elif chain on source and auth_type; "none" leaves result = None
Dispatch(src, auth) ==
    CASE src = "powerbi" /\ auth = "private" -> "powerbi.extract_private_dashboard"
      [] src = "powerbi" /\ auth = "public" -> "powerbi.extract_public_dashboard"
      [] src = "tableau" /\ auth = "private" -> "tableau.extract_private_dashboard"
      [] src = "tableau" /\ auth = "public" -> "tableau.extract_public_dashboard"
      [] OTHER -> "none"

\* the keywords each call site passes
CallKeywords(m) ==
    CASE m = "powerbi.extract_private_dashboard" -> {"session", "workspace_id", "report_id", "drill_state"}
      [] m = "powerbi.extract_public_dashboard" -> {"public_url", "use_ocr", "drill_state"}
      [] m = "tableau.extract_private_dashboard" -> {"server", "view_id", "drill_state"}
      [] m = "tableau.extract_public_dashboard" -> {"public_url", "use_ocr", "drill_state"}
      [] OTHER -> {}

\* the parameters each adapter method declares
Parameters(m) ==
    CASE m = "powerbi.extract_private_dashboard" -> {"client", "workspace_id", "report_id", "drill_state"}
      [] m = "powerbi.extract_public_dashboard" -> {"embed_url", "use_ocr", "drill_state"}
      [] m = "tableau.extract_private_dashboard" -> {"server", "view_id", "drill_state"}
      [] m = "tableau.extract_public_dashboard" -> {"public_url", "use_ocr", "drill_state"}
      [] OTHER -> {}

\* Python binds the call: no keyword the method does not declare
\* (otherwise TypeError before the method body runs)
Binds(m) == CallKeywords(m) \subseteq Parameters(m)

\* what the bound adapter method can return
AdapterResults(m, use_ocr, ds) ==
    CASE m = "powerbi.extract_private_dashboard" -> PowerBIPrivateResults(ds)
      [] m = "powerbi.extract_public_dashboard" -> PowerBIPublicResults(use_ocr, ds)
      [] m = "tableau.extract_private_dashboard" -> TableauPrivateResults(ds)
      [] m = "tableau.extract_public_dashboard" -> TableauPublicResults(use_ocr, ds)
      [] OTHER -> {}

\* every answer of the connector for these arguments
ConnResponses(src, auth) ==
    {ConnFailed(src, auth, e) : e \in ConnErrors}
    \cup (IF ConnectorDispatches(src, auth) THEN {ConnSuccess(src, auth)} ELSE {})

Exc(kind, msg) == [tag |-> "exc", kind |-> kind, msg |-> msg]

ExceptionKinds == {"TypeError", "ValueError", "ConnectionError"}

\* mutant: except ValueError as e
CatchesValueErrorOnly(kind) == kind = "ValueError"

\* except Exception as e
Catches(kind) == kind \in ExceptionKinds

----------------------------------------------------------------------------
(* DashboardExtractor.extract_dashboard, one action per step *)

TerminalPcs == {"done", "failed"}

\* the entry of extract_dashboard: the arguments are bound, the locals
\* are fresh
Enter(src, auth, ds, kw) ==
    /\ pc \in {"idle"} \cup TerminalPcs
    /\ pc' = "connecting"
    /\ source' = src
    /\ auth_type' = auth
    /\ drill_state' = ds
    /\ kwargs' = kw
    /\ conn' = None
    /\ raw' = None
    /\ result' = None
    /\ invoked' = {}
    /\ raised' = None
    /\ escaped' = FALSE
    /\ trail' = <<"connecting">>
    /\ UNCHANGED <<ocr_result, columnVars, cleanVars, toolVars>>

\* a caller starts a call
Call(src, auth, ds, kw) ==
    /\ Enter(src, auth, ds, kw)
    /\ UNCHANGED earlier

\* the except clause: a caught exception becomes _fail_result(str(e))
Handle(exc) ==
    /\ raised' = exc
    /\ pc' = "failed"
    /\ trail' = Append(trail, "failed")
    /\ IF Catches(exc.kind)
       THEN result' = FailResult(source, auth_type, Str(exc.msg)) /\ escaped' = FALSE
       ELSE result' = None /\ escaped' = TRUE

\* Step 1: connect_bi_dashboard returns
Connect(c) ==
    /\ pc = "connecting"
    /\ conn' = c
    /\ IF ConnectionFailed(c)
       THEN /\ result' = FailResult(source, auth_type, Get(c, "error", None))
            /\ pc' = "failed"
            /\ trail' = Append(trail, "failed")
       ELSE /\ result' = result
            /\ pc' = "extracting"
            /\ trail' = Append(trail, "extracting")
    /\ UNCHANGED <<source, auth_type, drill_state, kwargs, raw, invoked, raised, escaped>>
    /\ UNCHANGED <<earlier, ocr_result, columnVars, cleanVars, toolVars>>

\* Step 1: connect_bi_dashboard raises
ConnectRaises ==
    /\ pc = "connecting"
    /\ Handle(Exc("ConnectionError", "connection reset"))
    /\ UNCHANGED <<source, auth_type, drill_state, kwargs, conn, raw, invoked>>
    /\ UNCHANGED <<earlier, ocr_result, columnVars, cleanVars, toolVars>>

\* Step 2: no branch of the if/elif chain matches, result stays None
ExtractUnsupported ==
    /\ pc = "extracting"
    /\ Dispatch(source, auth_type) = "none"
    /\ result' = FailResult(source, auth_type, Str("Unsupported source/auth_type combination."))
    /\ pc' = "failed"
    /\ trail' = Append(trail, "failed")
    /\ UNCHANGED <<source, auth_type, drill_state, kwargs, conn, raw, invoked, raised, escaped>>
    /\ UNCHANGED <<earlier, ocr_result, columnVars, cleanVars, toolVars>>

\* Step 2: the call passes a keyword the method does not declare
ExtractBindingError ==
    /\ pc = "extracting"
    /\ Dispatch(source, auth_type) # "none"
    /\ ~Binds(Dispatch(source, auth_type))
    /\ invoked' = invoked \cup {Dispatch(source, auth_type)}
    /\ Handle(Exc("TypeError", "got an unexpected keyword argument"))
    /\ UNCHANGED <<source, auth_type, drill_state, kwargs, conn, raw>>
    /\ UNCHANGED <<earlier, ocr_result, columnVars, cleanVars, toolVars>>

\* Step 2: the adapter method runs and returns its dict
ExtractAdapter(r) ==
    /\ pc = "extracting"
    /\ Dispatch(source, auth_type) # "none"
    /\ Binds(Dispatch(source, auth_type))
    /\ r \in AdapterResults(Dispatch(source, auth_type), UseOcr(kwargs), drill_state)
    /\ raw' = r
    /\ invoked' = invoked \cup {Dispatch(source, auth_type)}
    /\ pc' = "unifying"
    /\ trail' = Append(trail, "unifying")
    /\ UNCHANGED <<source, auth_type, drill_state, kwargs, conn, result, raised, escaped>>
    /\ UNCHANGED <<earlier, ocr_result, columnVars, cleanVars, toolVars>>

\* result is not None: return self._ensure_unified_schema(...)
Unify ==
    /\ pc = "unifying"
    /\ result' = EnsureUnifiedSchema(raw, source, auth_type, drill_state)
    /\ pc' = IF result'.status = "success" THEN "done" ELSE "failed"
    /\ trail' = Append(trail, pc')
    /\ UNCHANGED <<source, auth_type, drill_state, kwargs, conn, raw, invoked, raised, escaped>>
    /\ UNCHANGED <<earlier, ocr_result, columnVars, cleanVars, toolVars>>

ColumnsOff ==
    /\ columns = <<>>
    /\ once = <<>>
    /\ twice = <<>>
    /\ cstep = "off"

\* no DataFrame is being cleaned
CleanerOff ==
    /\ frame = [names |-> <<>>, cols |-> <<>>]
    /\ df0 = [names |-> <<>>, cols |-> <<>>]
    /\ strategy = "drop"
    /\ pandas = 2
    /\ stage = "off"
    /\ cerror = None
    /\ board = None

\* no endpoint is being called
ToolsOff ==
    /\ site = None
    /\ tpc = "off"
    /\ call = None
    /\ dashboard = None
    /\ sent = None
    /\ response = None
    /\ prev = None
    /\ race = None

ExtractorOff ==
    /\ pc = "idle"
    /\ source = ""
    /\ auth_type = ""
    /\ drill_state = None
    /\ kwargs = [use_ocr |-> "absent"]
    /\ conn = None
    /\ raw = None
    /\ result = None
    /\ invoked = {}
    /\ raised = None
    /\ escaped = FALSE
    /\ trail = <<>>
    /\ earlier = None
    /\ ocr_result = None

Init ==
    /\ ExtractorOff
    /\ ColumnsOff
    /\ CleanerOff
    /\ ToolsOff

Step ==
    \/ /\ pc = "connecting"
       /\ \E c \in ConnResponses(source, auth_type) : Connect(c)
    \/ ConnectRaises
    \/ ExtractUnsupported
    \/ ExtractBindingError
    \/ /\ pc = "extracting"
       /\ \E r \in AdapterResults(Dispatch(source, auth_type), UseOcr(kwargs), drill_state) : ExtractAdapter(r)
    \/ Unify

Next ==
    \/ \E src \in Sources, auth \in AuthTypes, ds \in DrillStates, kw \in KwargsSet : Call(src, auth, ds, kw)
    \/ Step

Spec == Init /\ [][Next]_vars

----------------------------------------------------------------------------
(* _ensure_unified_schema called on its own, as the unit tests call it:    *)
(* the adapter result and the caller's drill_state are separate arguments. *)

SourceOf(m) == IF m \in {"powerbi.extract_private_dashboard", "powerbi.extract_public_dashboard"} THEN "powerbi" ELSE "tableau"

AuthOf(m) == IF m \in {"powerbi.extract_private_dashboard", "tableau.extract_private_dashboard"} THEN "private" ELSE "public"

\* the adapter-shaped dict of test_ensure_unified_schema_adds_highlights:
\* a list of components, one of them without highlights
TestResult(ds) ==
    [status |-> "success", tables |-> EmptyList, kpis |-> EmptyList,
     filters |-> EmptyList, visuals |-> EmptyList, layout |-> EmptyMap,
     components |-> List(<<Dict([type |-> "table", attrs |-> Str("headers,rows")])>>),
     html_text |-> "text", drill_state |-> OrEmpty(ds), error |-> None]

UnifyInit ==
    /\ pc = "direct_called"
    /\ \E m \in Methods, uo \in BOOLEAN, ads \in DrillStates :
          /\ raw \in AdapterResults(m, uo, ads) \cup {TestResult(ads)}
          /\ source = SourceOf(m)
          /\ auth_type = AuthOf(m)
    /\ drill_state \in DrillStates
    /\ kwargs = [use_ocr |-> "absent"]
    /\ conn = None
    /\ result = None
    /\ invoked = {}
    /\ raised = None
    /\ escaped = FALSE
    /\ trail = <<>>
    /\ earlier = None
    /\ ocr_result = None
    /\ ColumnsOff
    /\ CleanerOff
    /\ ToolsOff

DirectReturn ==
    /\ pc = "direct_called"
    /\ result' = EnsureUnifiedSchema(raw, source, auth_type, drill_state)
    /\ pc' = "direct_done"
    /\ UNCHANGED <<source, auth_type, drill_state, kwargs, conn, raw, invoked, raised, escaped, trail>>
    /\ UNCHANGED <<earlier, ocr_result, columnVars, cleanVars, toolVars>>

UnifyNext == DirectReturn

SpecUnify == UnifyInit /\ [][UnifyNext]_vars

----------------------------------------------------------------------------
(* Properties of extract_dashboard *)

\* extract_dashboard has returned a payload
Returned == pc \in TerminalPcs /\ result # None

ContainersEmpty(r) ==
    /\ IsEmpty(r.tables)
    /\ IsEmpty(r.kpis)
    /\ IsEmpty(r.filters)
    /\ IsEmpty(r.visuals)
    /\ IsEmpty(r.components)

\* C1: every returned payload with status failed has a non-null error and
\* empty tables, kpis, filters, visuals and components, whichever path
\* (connector failure, adapter-reported failure, unsupported combination,
\* caught exception) produced it.
C1_FailedHasErrorAndEmptyContainers ==
    (Returned /\ result.status = "failed") =>
        /\ result.error # None
        /\ ContainersEmpty(result)

\* a failed payload that came out of the unifier (the adapter reported failure)
C1_Witness ==
    /\ Returned
    /\ result.status = "failed"
    /\ raw # None
    /\ raw.status = "failed"
    /\ trail = <<"connecting", "extracting", "unifying", "failed">>

\* C2: every returned payload, on success and on every failure path, holds
\* every field of the unified schema.
C2_EveryFieldPresent ==
    Returned => UnifiedFields \subseteq DOMAIN result

\* C3: in every successful payload each element of components is a component
\* record with a highlights field, and that field is [] where the adapter's
\* component had none.
C3_ComponentsHaveHighlights ==
    (Returned /\ result.status = "success") =>
        LET given == Iterate(Get(raw, "components", EmptyList))
            out == result.components.items
        IN  /\ Len(out) = Len(given)
            /\ \A i \in 1..Len(out) :
                  /\ IsDict(out[i])
                  /\ "highlights" \in DOMAIN out[i].f
                  /\ (IsDict(given[i]) /\ "highlights" \notin DOMAIN given[i].f)
                        => out[i].f.highlights = <<>>

\* a successful payload with at least two components
C3_Witness ==
    /\ Returned
    /\ result.status = "success"
    /\ Len(result.components.items) >= 2

C5_ConnectorFailure ==
    (conn # None /\ conn.status # "success") =>
        /\ pc = "failed"
        /\ result # None
        /\ result.status = "failed"
        /\ result.source = source
        /\ result.auth_type = auth_type
        /\ result.error = conn.error
        /\ ContainersEmpty(result)
        /\ invoked = {}
        /\ raw = None

\* the connector reported an expired login for a private Power BI report
C5_Witness ==
    /\ conn # None
    /\ conn.status = "failed"
    /\ conn.error = Str("auth expired")
    /\ source = "powerbi"
    /\ auth_type = "private"
    /\ Returned

\* the moves of one extraction attempt
AttemptMoves ==
    {<<"connecting", "extracting">>, <<"extracting", "unifying">>, <<"unifying", "done">>,
     <<"connecting", "failed">>, <<"extracting", "failed">>, <<"unifying", "failed">>}

\* a step is a move of the running attempt, or the start of a new one
LegalMove ==
    \/ pc' = pc /\ result' = result /\ trail' = trail
    \/ <<pc, pc'>> \in AttemptMoves /\ trail' = Append(trail, pc')
    \/ /\ pc \in {"idle"} \cup TerminalPcs
       /\ pc' = "connecting"
       /\ trail' = <<"connecting">>
       /\ result' = None

\* C6: an attempt moves only along connecting -> extracting -> unifying ->
\* done, or into failed from an earlier state; done and failed are left only
\* by a new call; an adapter is called only after the connector reported
\* success; unification runs only on a result an adapter returned; and no
\* attempt is stuck before done or failed (a step of the call is enabled in
\* every earlier state, and each step moves forward).
C6_AttemptLifecycle ==
    /\ [][LegalMove]_vars
    /\ [](invoked # {} => (conn # None /\ conn.status = "success"))
    /\ [](pc = "unifying" => (raw # None /\ invoked # {} /\ Binds(Dispatch(source, auth_type))))
    /\ [](pc \in {"connecting", "extracting", "unifying"} => ENABLED Step)
    /\ [](pc \in TerminalPcs => ~ENABLED Step)

\* an attempt that went through every state and ended in done
C6_Witness ==
    /\ pc = "done"
    /\ trail = <<"connecting", "extracting", "unifying", "done">>
    /\ invoked # {}

----------------------------------------------------------------------------
(* Properties of _ensure_unified_schema *)

DirectDone == pc = "direct_done"

\* C7: on adapter success the emitted drill_state is the caller-supplied
\* prior drill_state whenever the caller supplied one, also when the
\* adapter's result carries a different one.
C7_CallerDrillStateWins ==
    (DirectDone /\ raw.status = "success" /\ drill_state # None) =>
        result.drill_state = drill_state

\* C8: when the adapter's components is a mapping the unifier emits the
\* mapping's values in order, each with highlights present.
C8_MappingValuesEmitted ==
    (DirectDone /\ "components" \in DOMAIN raw /\ raw.components.tag = "map") =>
        /\ Len(result.components.items) = Len(raw.components.vals)
        /\ \A i \in 1..Len(raw.components.vals) :
              /\ result.components.items[i] = InjectHighlights(raw.components.vals[i])
              /\ "highlights" \in DOMAIN result.components.items[i].f

----------------------------------------------------------------------------
(* DataCleaner.normalize_column_names.  A header is the sequence of its    *)
(* characters.                                                             *)

Digits == <<"0", "1", "2", "3", "4", "5", "6", "7", "8", "9">>

\* str(n)
RECURSIVE Decimal(_)
Decimal(n) == IF n < 10 THEN <<Digits[n + 1]>> ELSE Decimal(n \div 10) \o <<Digits[(n % 10) + 1]>>

Whitespace == {" "}

\* the characters [^0-9a-zA-Z_] that occur in the headers below
NonWord == {" ", "$"}

\* str.lower() on the characters that occur in the headers below
Lower(c) ==
    CASE c = "A" -> "a"
      [] c = "D" -> "d"
      [] c = "N" -> "n"
      [] c = "S" -> "s"
      [] c = "T" -> "t"
      [] OTHER -> c

LowerAll(s) == [i \in 1..Len(s) |-> Lower(s[i])]

\* str.strip(chars): drop the leading and trailing characters in chars
RECURSIVE LStrip(_, _)
LStrip(s, chars) == IF s # <<>> /\ Head(s) \in chars THEN LStrip(Tail(s), chars) ELSE s

RECURSIVE RStrip(_, _)
RStrip(s, chars) == IF s # <<>> /\ s[Len(s)] \in chars THEN RStrip(SubSeq(s, 1, Len(s) - 1), chars) ELSE s

Strip(s, chars) == RStrip(LStrip(s, chars), chars)

\* re.sub(r"[chars]+", "_", s): every maximal run of characters of chars
\* becomes one underscore
RECURSIVE SubRuns(_, _)
SubRuns(s, chars) ==
    IF s = <<>> THEN <<>>
    ELSE IF Head(s) \in chars
         THEN <<"_">> \o SubRuns(LStrip(s, chars), chars)
         ELSE <<Head(s)>> \o SubRuns(Tail(s), chars)

\* the two list comprehensions of normalize_column_names on one header
Slug(col) ==
    Strip(SubRuns(SubRuns(LowerAll(Strip(col, Whitespace)), NonWord), {"_"}), {"_"})

\* _deduplicate_columns with the repeat numbered from the second occurrence
DeduplicateColumnsCountRepeats(cols) ==
    [i \in 1..Len(cols) |->
        LET count == Cardinality({j \in 1..i : cols[j] = cols[i]})
        IN  IF count > 1 THEN cols[i] \o <<"_">> \o Decimal(count - 1) ELSE cols[i]]

\* DataCleaner._deduplicate_columns
DeduplicateColumns(cols) ==
    [i \in 1..Len(cols) |->
        LET count == Cardinality({j \in 1..i : cols[j] = cols[i]})
        IN  IF count > 1 THEN cols[i] \o <<"_">> \o Decimal(count) ELSE cols[i]]

RevenueUsd == <<"r", "e", "v", "e", "n", "u", "e", "_", "u", "s", "d">>

RevenueDollar == <<"r", "e", "v", "e", "n", "u", "e", "_", "$">>

SalesUsd == <<"s", "a", "l", "e", "s", "_", "u", "s", "d">>

TotalSales == <<"t", "o", "t", "a", "l", "_", "s", "a", "l", "e", "s">>

DateCol == <<"d", "a", "t", "e">>

OrderDate == <<"o", "r", "d", "e", "r", "_", "d", "a", "t", "e">>

CreatedOn == <<"c", "r", "e", "a", "t", "e", "d", "_", "o", "n">>

Timestamp == <<"t", "i", "m", "e", "s", "t", "a", "m", "p">>

\* reverse_map built from the default semantic_map; reverse_map.get(c, c)
ApplyAlias(c) ==
    IF c \in {RevenueDollar, SalesUsd, TotalSales} THEN RevenueUsd
    ELSE IF c \in {OrderDate, CreatedOn, Timestamp} THEN DateCol
    ELSE c

\* DataCleaner.normalize_column_names on df.columns
NormalizeColumnNames(cols) ==
    LET slugs == [i \in 1..Len(cols) |-> Slug(cols[i])]
        dedup == DeduplicateColumns(slugs)
    IN  [i \in 1..Len(dedup) |-> ApplyAlias(dedup[i])]

\* headers taken from the specification's examples and the alias table
NamedHeaders ==
    {<<"S", "a", "l", "e", "s">>,
     <<"s", "a", "l", "e", "s", "_", "2">>,
     <<"T", "o", "t", "a", "l", " ", "S", "a", "l", "e", "s">>,
     <<" ", "D", "a", "t", "e", " ">>,
     RevenueUsd,
     Timestamp}

HeaderAlphabet == {"a", "_", "2"}

RECURSIVE StringsUpTo(_)
StringsUpTo(n) ==
    IF n = 0 THEN {<<>>}
    ELSE LET shorter == StringsUpTo(n - 1)
         IN  shorter \cup {Append(w, c) : w \in shorter, c \in HeaderAlphabet}

HeaderPool == StringsUpTo(MaxHeaderLen) \cup NamedHeaders

RECURSIVE FramesUpTo(_)
FramesUpTo(n) ==
    IF n = 0 THEN {<<>>}
    ELSE LET shorter == FramesUpTo(n - 1)
         IN  shorter \cup {Append(f, h) : f \in shorter, h \in HeaderPool}

ColumnsInit ==
    /\ ExtractorOff
    /\ CleanerOff
    /\ ToolsOff
    /\ columns \in FramesUpTo(MaxCols)
    /\ once = <<>>
    /\ twice = <<>>
    /\ cstep = "raw"

\* df = normalize_column_names(df)
NormalizeOnce ==
    /\ cstep = "raw"
    /\ once' = NormalizeColumnNames(columns)
    /\ cstep' = "once"
    /\ UNCHANGED <<columns, twice>>
    /\ UNCHANGED <<extractVars, cleanVars, toolVars>>

\* normalize_column_names applied to the frame it returned
NormalizeTwice ==
    /\ cstep = "once"
    /\ twice' = NormalizeColumnNames(once)
    /\ cstep' = "twice"
    /\ UNCHANGED <<columns, once>>
    /\ UNCHANGED <<extractVars, cleanVars, toolVars>>

ColumnsNext == NormalizeOnce \/ NormalizeTwice

SpecColumns == ColumnsInit /\ [][ColumnsNext]_vars

----------------------------------------------------------------------------
(* Properties of normalize_column_names *)

\* C9: column normalization is idempotent: applying it to its own output
\* gives the same headers as applying it once.
C9_NormalizeIdempotent ==
    cstep = "twice" => twice = once

\* C10: after normalization the headers are pairwise distinct and there are
\* as many of them as the frame has columns.
C10_HeadersDistinct ==
    cstep \in {"once", "twice"} =>
        /\ Len(once) = Len(columns)
        /\ \A i, j \in 1..Len(once) : i # j => once[i] # once[j]

\* the headers ["Sales", "Sales", "Sales"]
SalesThrice == [i \in 1..3 |-> <<"S", "a", "l", "e", "s">>]

\* C11: deduplication keeps the number and the order of the headers: the
\* first header with a given slug keeps the bare slug and the k-th one
\* (k >= 2), in order of appearance, is slug_k; the alias map is applied to
\* the names so obtained; ["Sales","Sales","Sales"] gives
\* ["sales","sales_2","sales_3"].
C11_DedupSuffixesInOrder ==
    cstep \in {"once", "twice"} =>
        /\ Len(once) = Len(columns)
        /\ \A i \in 1..Len(columns) :
              LET slug == Slug(columns[i])
                  k == Cardinality({j \in 1..i : Slug(columns[j]) = slug})
              IN  once[i] = ApplyAlias(IF k = 1 THEN slug ELSE slug \o <<"_">> \o Decimal(k))
        /\ columns = SalesThrice =>
              once = << <<"s", "a", "l", "e", "s">>,
                        <<"s", "a", "l", "e", "s", "_", "2">>,
                        <<"s", "a", "l", "e", "s", "_", "3">> >>

\* the three "Sales" headers normalized
C11_Witness ==
    /\ cstep = "once"
    /\ columns = SalesThrice
    /\ once[3] = <<"s", "a", "l", "e", "s", "_", "3">>

----------------------------------------------------------------------------
(* DataCleaner on cell values.  A cell of a DataFrame is a tagged record:   *)
(* a missing value (None, NaN, NaT), a Python str (its characters), a       *)
(* number (counted in ten-thousandths so that x / 100.0 is a whole number   *)
(* for the values used here) or a Timestamp (the text it was parsed from).  *)
(* A column is its dtype and its cells, a frame its names and its columns.  *)

Null == [tag |-> "null"]

Text(s) == [tag |-> "str", s |-> s]

Number(v) == [tag |-> "num", v |-> v]

Stamp(s) == [tag |-> "date", s |-> s]

IsNull(cell) == cell.tag = "null"

IsDigit(c) == \E i \in 1..Len(Digits) : Digits[i] = c

DigitValue(c) == (CHOOSE i \in 1..Len(Digits) : Digits[i] = c) - 1

AllDigits(s) == s # <<>> /\ \A i \in 1..Len(s) : IsDigit(s[i])

\* int(s) for a string of digits
RECURSIVE Natural(_)
Natural(s) == IF s = <<>> THEN 0 ELSE 10 * Natural(SubSeq(s, 1, Len(s) - 1)) + DigitValue(s[Len(s)])

\* Series.str.match(r"\d{4}-\d{1,2}-\d{1,2}"): anchored at the start only
MatchesDatePattern(s) ==
    \E m \in 1..2, d \in 1..2 :
        /\ Len(s) >= 6 + m + d
        /\ AllDigits(SubSeq(s, 1, 4))
        /\ s[5] = "-"
        /\ AllDigits(SubSeq(s, 6, 5 + m))
        /\ s[6 + m] = "-"
        /\ AllDigits(SubSeq(s, 7 + m, 6 + m + d))

\* positions of the characters of s that equal c
Positions(s, c) == {i \in 1..Len(s) : s[i] = c}

\* Series.str.match(r"^-?\d+(\.\d+)?$")
MatchesDecimalPattern(s) ==
    LET body == IF s # <<>> /\ Head(s) = "-" THEN Tail(s) ELSE s
        dots == Positions(body, ".")
    IN  \/ AllDigits(body)
        \/ /\ Cardinality(dots) = 1
           /\ LET p == CHOOSE i \in dots : TRUE
              IN  /\ AllDigits(SubSeq(body, 1, p - 1))
                  /\ AllDigits(SubSeq(body, p + 1, Len(body)))

\* the digits after the decimal point as ten-thousandths
Fraction(s) ==
    LET padded == SubSeq(s \o <<"0", "0", "0", "0">>, 1, 4)
    IN  Natural(padded)

\* float(s) for a string of the signed-decimal form, in ten-thousandths
ParseDecimal(s) ==
    LET negative == Head(s) = "-"
        body == IF negative THEN Tail(s) ELSE s
        dots == Positions(body, ".")
        p == IF dots = {} THEN Len(body) + 1 ELSE CHOOSE i \in dots : TRUE
        whole == Natural(SubSeq(body, 1, p - 1))
        part == IF dots = {} THEN 0 ELSE Fraction(SubSeq(body, p + 1, Len(body)))
        size == whole * 10000 + part
    IN  IF negative THEN 0 - size ELSE size

\* pd.to_numeric(x, errors="coerce") on one cell: of the strings used here
\* it parses exactly the signed decimals
ToNumeric(cell) ==
    CASE cell.tag = "num" -> cell
      [] cell.tag = "str" /\ MatchesDecimalPattern(cell.s) -> Number(ParseDecimal(cell.s))
      [] OTHER -> Null

\* a string pd.to_datetime parses: of the strings used here, a whole
\* YYYY-M-D with a month 1..12 and a day 1..28
ParsesAsDate(s) ==
    \E m \in 1..2, d \in 1..2 :
        /\ Len(s) = 6 + m + d
        /\ MatchesDatePattern(s)
        /\ s[6 + m] = "-"
        /\ AllDigits(SubSeq(s, 6, 5 + m))
        /\ AllDigits(SubSeq(s, 7 + m, 6 + m + d))
        /\ Natural(SubSeq(s, 6, 5 + m)) \in 1..12
        /\ Natural(SubSeq(s, 7 + m, 6 + m + d)) \in 1..28

\* pd.to_datetime(x, errors="coerce") on one cell
ToDatetime(cell) ==
    CASE cell.tag = "date" -> cell
      [] cell.tag = "str" /\ ParsesAsDate(cell.s) -> Stamp(cell.s)
      [] cell.tag = "num" -> Stamp(<<"1", "9", "7", "0", "-", "0", "1", "-", "0", "1">>)
      [] OTHER -> Null

----------------------------------------------------------------------------
(* DataCleaner on columns and frames *)

MaxRows == 2          \* rows of a frame handed to clean
MaxValues == 5        \* values of a column handed to convert_data_types
MaxCells == 3         \* values of a column handed to normalize_values

\* releases of pandas that differ in is_string_dtype on an object column
PandasVersions == {1, 2}

Column(dtype, cells) == [dtype |-> dtype, cells |-> cells]

Frame(names, cols) == [names |-> names, cols |-> cols]

\* len(df)
RowCount(fr) == IF fr.cols = <<>> THEN 0 ELSE Len(fr.cols[1].cells)

\* df.isnull().any().any()
HasNull(fr) == \E c \in 1..Len(fr.cols) : \E i \in 1..Len(fr.cols[c].cells) : IsNull(fr.cols[c].cells[i])

\* Series.dropna()
RECURSIVE DropNa(_)
DropNa(cells) ==
    IF cells = <<>> THEN <<>>
    ELSE IF IsNull(Head(cells)) THEN DropNa(Tail(cells))
         ELSE <<Head(cells)>> \o DropNa(Tail(cells))

\* str(x) of a missing value of an object column
NoneText == <<"N", "o", "n", "e">>

\* Series.astype(str) on one cell of an object column of strings and None
AsStr(cell) == IF IsNull(cell) THEN Text(NoneText) ELSE cell

\* pd.api.types.is_string_dtype(df[col]): an object column passes in
\* pandas 1; from pandas 2 on only when every element is a str
IsStringDtype(col, version) ==
    /\ col.dtype = "object"
    /\ \/ version = 1
       \/ \A i \in 1..Len(col.cells) : col.cells[i].tag = "str"

\* how many flags of a boolean series are True
Count(flags) == Cardinality({i \in 1..Len(flags) : flags[i]})

\* the body of the loop of convert_data_types for one column; the mean of
\* the match flags is k / n, compared with > 0.8
ConvertColumn(col, version) ==
    IF col.dtype \in {"float", "datetime"} \/ ~IsStringDtype(col, version) THEN col
    ELSE LET non_null_vals == DropNa(col.cells)
             n == Len(non_null_vals)
             is_date == [i \in 1..n |-> MatchesDatePattern(non_null_vals[i].s)]
             is_decimal == [i \in 1..n |-> MatchesDecimalPattern(non_null_vals[i].s)]
         IN  IF n = 0 THEN col
             ELSE IF 10 * Count(is_date) > 8 * n
                  THEN Column("datetime", [i \in 1..Len(col.cells) |-> ToDatetime(col.cells[i])])
             ELSE IF 10 * Count(is_decimal) > 8 * n
                  THEN Column("float", [i \in 1..Len(col.cells) |-> ToNumeric(col.cells[i])])
             ELSE Column("object", [i \in 1..Len(col.cells) |-> AsStr(col.cells[i])])

\* DataCleaner.convert_data_types
ConvertDataTypes(fr, version) ==
    Frame(fr.names, [c \in 1..Len(fr.cols) |-> ConvertColumn(fr.cols[c], version)])

\* the characters of the cell strings in code-point order
CodePoints ==
    <<" ", "$", "%", ",", "-", ".", "/", "0", "1", "2", "3", "4", "5", "6", "7",
      "8", "9", "A", "D", "N", "S", "T", "_", "a", "b", "c", "d", "e", "f", "g",
      "h", "i", "j", "k", "l", "m", "n", "o", "p", "q", "r", "s", "t", "u", "v",
      "w", "x", "y", "z">>

Ord(c) == CHOOSE i \in 1..Len(CodePoints) : CodePoints[i] = c

\* a < b for two Python strings
RECURSIVE StrLess(_, _)
StrLess(a, b) ==
    IF b = <<>> THEN FALSE
    ELSE IF a = <<>> THEN TRUE
    ELSE IF Head(a) = Head(b) THEN StrLess(Tail(a), Tail(b))
    ELSE Ord(Head(a)) < Ord(Head(b))

RECURSIVE Sum(_)
Sum(cells) == IF cells = <<>> THEN 0 ELSE Head(cells).v + Sum(Tail(cells))

\* Series.mean() of a numeric column: the missing values are skipped; the
\* quotient is cut to ten-thousandths
Mean(cells) ==
    LET present == DropNa(cells)
    IN  IF present = <<>> THEN Null ELSE Number(Sum(present) \div Len(present))

\* Series.mode(): the most frequent values, sorted
Modes(cells) ==
    LET present == DropNa(cells)
        Freq(x) == Cardinality({i \in 1..Len(present) : present[i] = x})
    IN  {present[i] : i \in {j \in 1..Len(present) :
                                \A k \in 1..Len(present) : Freq(present[k]) <= Freq(present[j])}}

\* Series.mode()[0] of a column of strings
FirstMode(cells) ==
    CHOOSE x \in Modes(cells) : \A y \in Modes(cells) : y = x \/ StrLess(x.s, y.s)

\* Series.fillna(value)
FillNa(cells, value) == [i \in 1..Len(cells) |-> IF IsNull(cells[i]) THEN value ELSE cells[i]]

\* DataFrame.dropna(): the rows without a missing value
RECURSIVE KeptRows(_, _)
KeptRows(fr, i) ==
    IF i > RowCount(fr) THEN <<>>
    ELSE IF \E c \in 1..Len(fr.cols) : IsNull(fr.cols[c].cells[i]) THEN KeptRows(fr, i + 1)
         ELSE <<i>> \o KeptRows(fr, i + 1)

DropRows(fr) ==
    LET kept == KeptRows(fr, 1)
    IN  Frame(fr.names,
              [c \in 1..Len(fr.cols) |->
                  Column(fr.cols[c].dtype, [k \in 1..Len(kept) |-> fr.cols[c].cells[kept[k]]])])

\* the fill_mean branch for one column
FillMeanColumn(col) ==
    CASE col.dtype = "float" -> Column("float", FillNa(col.cells, Mean(col.cells)))
      [] col.dtype = "object" /\ Modes(col.cells) # {} ->
            Column("object", FillNa(col.cells, FirstMode(col.cells)))
      [] OTHER -> col

\* DataFrame.fillna(self.fill_constant) for one column, the constant being
\* the default 0; a datetime column that takes the 0 becomes an object column
FillConstantColumn(col) ==
    LET filled == FillNa(col.cells, Number(0))
    IN  Column(IF col.dtype = "datetime" /\ filled # col.cells THEN "object" ELSE col.dtype, filled)

SupportedStrategies == {"drop", "fill_mean", "fill_constant"}

\* DataCleaner.handle_missing_values for a supported strategy
HandleMissingValues(fr, strat) ==
    CASE strat = "drop" -> DropRows(fr)
      [] strat = "fill_mean" ->
            Frame(fr.names, [c \in 1..Len(fr.cols) |-> FillMeanColumn(fr.cols[c])])
      [] strat = "fill_constant" ->
            Frame(fr.names, [c \in 1..Len(fr.cols) |-> FillConstantColumn(fr.cols[c])])

\* the error with the name of the strategy left out of its message
UnsupportedStrategyUnnamed(strat) ==
    [kind |-> "ValueError", msg |-> "Unsupported missing value strategy", strategy |-> ""]

\* ValueError(f"Unsupported missing value strategy: {self.missing_value_strategy}")
UnsupportedStrategy(strat) ==
    [kind |-> "ValueError", msg |-> "Unsupported missing value strategy", strategy |-> strat]

\* Series.str.replace(r"[chars]", "", regex=True) on one string
RECURSIVE Remove(_, _)
Remove(s, chars) ==
    IF s = <<>> THEN <<>>
    ELSE IF Head(s) \in chars THEN Remove(Tail(s), chars)
         ELSE <<Head(s)>> \o Remove(Tail(s), chars)

\* df[col].astype(str).str.strip() on one cell; the text of a number or of
\* a Timestamp holds no blank, '$', ',' or '%'
Stripped(cell) == IF cell.tag = "str" THEN Text(Strip(cell.s, Whitespace)) ELSE AsStr(cell)

\* series.str.contains("%") on one cell
ContainsPercent(cell) == cell.tag = "str" /\ Positions(cell.s, "%") # {}

\* the two str.replace calls and pd.to_numeric on one cell
CleanedNumber(cell) ==
    IF cell.tag = "str"
    THEN ToNumeric(Text(Remove(Remove(cell.s, {"$", ","}), {"%"})))
    ELSE ToNumeric(cell)

\* the body of the loop of normalize_values for one object column; the
\* mean of the '%' flags is k / n, compared with > 0.5
NormalizeValuesColumn(col) ==
    IF col.dtype # "object" THEN col
    ELSE LET series == [i \in 1..Len(col.cells) |-> Stripped(col.cells[i])]
             is_percentage == 2 * Count([i \in 1..Len(series) |-> ContainsPercent(series[i])]) > Len(series)
             Scaled(x) == IF IsNull(x) \/ ~is_percentage THEN x ELSE Number(x.v \div 100)
             numeric_series == [i \in 1..Len(series) |-> Scaled(CleanedNumber(series[i]))]
             out == [i \in 1..Len(series) |->
                        IF IsNull(numeric_series[i]) THEN col.cells[i] ELSE numeric_series[i]]
         IN  Column(IF \A i \in 1..Len(out) : out[i].tag \in {"num", "null"} THEN "float" ELSE "object",
                    out)

\* DataCleaner.normalize_values
NormalizeValues(fr) ==
    Frame(fr.names, [c \in 1..Len(fr.cols) |-> NormalizeValuesColumn(fr.cols[c])])

Yes == <<"y", "e", "s">>

No == <<"n", "o">>

NotAvailable == <<"n", "/", "a">>

Affirmative == <<"a", "f", "f", "i", "r", "m", "a", "t", "i", "v", "e">>

Negative == <<"n", "e", "g", "a", "t", "i", "v", "e">>

NotApplicable == <<"n", "o", "t", "_", "a", "p", "p", "l", "i", "c", "a", "b", "l", "e">>

\* Series.replace(self.synonym_map) with the default synonym_map
Synonym(s) ==
    CASE s = Yes -> Affirmative
      [] s = No -> Negative
      [] s = NotAvailable -> NotApplicable
      [] OTHER -> s

\* .str.lower().str.strip().replace(...) on one cell: the .str methods give
\* NaN for an element that is not a str
StandardizeCell(cell) ==
    IF cell.tag = "str" THEN Text(Synonym(Strip(LowerAll(cell.s), Whitespace))) ELSE Null

\* DataCleaner.standardize_categories
StandardizeCategories(fr) ==
    Frame(fr.names,
          [c \in 1..Len(fr.cols) |->
              IF fr.cols[c].dtype # "object" THEN fr.cols[c]
              ELSE Column("object", [i \in 1..Len(fr.cols[c].cells) |-> StandardizeCell(fr.cols[c].cells[i])])])

\* the body of the loop of parse_dates for one object column
ParseDatesColumn(col) ==
    IF col.dtype # "object" THEN col
    ELSE LET parsed == [i \in 1..Len(col.cells) |-> ToDatetime(col.cells[i])]
         IN  IF DropNa(parsed) # <<>> THEN Column("datetime", parsed) ELSE col

\* DataCleaner.parse_dates
ParseDates(fr) ==
    Frame(fr.names, [c \in 1..Len(fr.cols) |-> ParseDatesColumn(fr.cols[c])])

----------------------------------------------------------------------------
(* DataCleaner.clean: the six steps in order *)

DateHeader == <<"D", "a", "t", "e">>

SalesHeader == <<"S", "a", "l", "e", "s">>

IsoDay == <<"2", "0", "2", "5", "-", "0", "1", "-", "0", "5">>

Word == <<"a", "b", "c">>

Hundred == <<"1", "0", "0">>

Percent45 == <<"4", "5", "%">>

\* cells of the scraped Date and Sales columns; None pads a short row
DateCells == {Null, Text(IsoDay), Text(Word)}

SalesCells == {Null, Text(Hundred), Text(Percent45), Text(Word)}

RECURSIVE CellsUpTo(_, _)
CellsUpTo(pool, n) ==
    IF n = 0 THEN {<<>>}
    ELSE LET shorter == CellsUpTo(pool, n - 1)
         IN  shorter \cup {Append(w, c) : w \in shorter, c \in pool}

\* pd.DataFrame(rows, columns=["Date", "Sales"]): two object columns
CleanFrames ==
    {Frame(<<DateHeader, SalesHeader>>, <<Column("object", d), Column("object", v)>>) :
        d \in CellsUpTo(DateCells, MaxRows), v \in CellsUpTo(SalesCells, MaxRows)}

Strategies == SupportedStrategies \cup {"median"}

CleanInit ==
    /\ ExtractorOff
    /\ ColumnsOff
    /\ ToolsOff
    /\ df0 \in {fr \in CleanFrames : Len(fr.cols[1].cells) = Len(fr.cols[2].cells)}
    /\ frame = df0
    /\ strategy \in Strategies
    /\ pandas \in PandasVersions
    /\ stage = "called"
    /\ cerror = None
    /\ board = None

\* df = self.normalize_column_names(df)
CleanColumnNames ==
    /\ stage = "called"
    /\ frame' = Frame(NormalizeColumnNames(frame.names), frame.cols)
    /\ stage' = "named"
    /\ UNCHANGED <<df0, strategy, pandas, cerror, board>>
    /\ UNCHANGED <<extractVars, columnVars, toolVars>>

\* df = self.convert_data_types(df)
CleanConvert ==
    /\ stage = "named"
    /\ frame' = ConvertDataTypes(frame, pandas)
    /\ stage' = "converted"
    /\ UNCHANGED <<df0, strategy, pandas, cerror, board>>
    /\ UNCHANGED <<extractVars, columnVars, toolVars>>

\* df = self.handle_missing_values(df)
CleanMissing ==
    /\ stage = "converted"
    /\ strategy \in SupportedStrategies
    /\ frame' = HandleMissingValues(frame, strategy)
    /\ stage' = "filled"
    /\ UNCHANGED <<df0, strategy, pandas, cerror, board>>
    /\ UNCHANGED <<extractVars, columnVars, toolVars>>

\* handle_missing_values raises and clean lets the exception through
CleanMissingRaises ==
    /\ stage = "converted"
    /\ strategy \notin SupportedStrategies
    /\ cerror' = UnsupportedStrategy(strategy)
    /\ stage' = "raised"
    /\ UNCHANGED <<frame, df0, strategy, pandas, board>>
    /\ UNCHANGED <<extractVars, columnVars, toolVars>>

\* df = self.normalize_values(df)
CleanValues ==
    /\ stage = "filled"
    /\ frame' = NormalizeValues(frame)
    /\ stage' = "normalized"
    /\ UNCHANGED <<df0, strategy, pandas, cerror, board>>
    /\ UNCHANGED <<extractVars, columnVars, toolVars>>

\* df = self.standardize_categories(df)
CleanCategories ==
    /\ stage = "normalized"
    /\ frame' = StandardizeCategories(frame)
    /\ stage' = "standardized"
    /\ UNCHANGED <<df0, strategy, pandas, cerror, board>>
    /\ UNCHANGED <<extractVars, columnVars, toolVars>>

\* df = self.parse_dates(df); return df
CleanDates ==
    /\ stage = "standardized"
    /\ frame' = ParseDates(frame)
    /\ stage' = "cleaned"
    /\ UNCHANGED <<df0, strategy, pandas, cerror, board>>
    /\ UNCHANGED <<extractVars, columnVars, toolVars>>

CleanNext ==
    \/ CleanColumnNames
    \/ CleanConvert
    \/ CleanMissing
    \/ CleanMissingRaises
    \/ CleanValues
    \/ CleanCategories
    \/ CleanDates

SpecClean == CleanInit /\ [][CleanNext]_vars

----------------------------------------------------------------------------
(* Properties of clean *)

\* C12: the frame clean returns holds no missing value when the strategy is
\* drop, and then has no more rows than the frame handed in; it holds no
\* missing value when the strategy is fill_constant with the constant 0.
C12_CleanLeavesNoNull ==
    stage = "cleaned" =>
        /\ strategy = "drop" => (~HasNull(frame) /\ RowCount(frame) <= RowCount(df0))
        /\ strategy = "fill_constant" => ~HasNull(frame)

\* C13: with a strategy other than drop, fill_mean and fill_constant the
\* cleaning run ends in the raised error that names the strategy: no step
\* after handle_missing_values runs and no frame is returned.
C13_UnsupportedStrategyReported ==
    strategy \notin {"drop", "fill_mean", "fill_constant"} =>
        /\ stage \in {"called", "named", "converted", "raised"}
        /\ stage = "converted" => (ENABLED CleanMissingRaises /\ ~ENABLED CleanMissing)
        /\ stage = "raised" => (cerror # None /\ cerror.kind = "ValueError" /\ cerror.strategy = strategy)
        /\ stage # "raised" => cerror = None

\* a run with the strategy "median" that ended in the raised error
C13_Witness ==
    /\ stage = "raised"
    /\ strategy = "median"
    /\ cerror # None
    /\ RowCount(df0) > 0

----------------------------------------------------------------------------
(* convert_data_types on one column of strings *)

ShortDay == <<"2", "0", "2", "5", "-", "1", "-", "5">>

MinusOneAndHalf == <<"-", "1", ".", "5">>

\* values of a scraped column: a date, a signed decimal, a word, None
ConvertCells == {Null, Text(ShortDay), Text(MinusOneAndHalf), Text(Word)}

ConvertInit ==
    /\ ExtractorOff
    /\ ColumnsOff
    /\ ToolsOff
    /\ \E cells \in CellsUpTo(ConvertCells, MaxValues) :
          df0 = Frame(<<SalesHeader>>, <<Column("object", cells)>>)
    /\ frame = df0
    /\ strategy = "drop"
    /\ pandas \in PandasVersions
    /\ stage = "convert_called"
    /\ cerror = None
    /\ board = None

\* cleaner.convert_data_types(df)
ConvertReturn ==
    /\ stage = "convert_called"
    /\ frame' = ConvertDataTypes(frame, pandas)
    /\ stage' = "convert_returned"
    /\ UNCHANGED <<df0, strategy, pandas, cerror, board>>
    /\ UNCHANGED <<extractVars, columnVars, toolVars>>

ConvertNext == ConvertReturn

SpecConvert == ConvertInit /\ [][ConvertNext]_vars

\* C14: a string column becomes a date column when at least 80% of its
\* non-null values (exactly 80% included) match YYYY-M-D, otherwise a
\* numeric column when at least 80% match the signed-decimal pattern,
\* otherwise it stays a string column; in a converted column the entries
\* that do not parse are null, and the column keeps its length.
C14_ConvertAtEightyPercent ==
    stage = "convert_returned" =>
        LET before == df0.cols[1].cells
            after == frame.cols[1]
            present == {i \in 1..Len(before) : ~IsNull(before[i])}
            dates == {i \in present : MatchesDatePattern(before[i].s)}
            decimals == {i \in present : MatchesDecimalPattern(before[i].s)}
            n == Cardinality(present)
        IN  /\ Len(after.cells) = Len(before)
            /\ n > 0 =>
                  IF 10 * Cardinality(dates) >= 8 * n
                  THEN /\ after.dtype = "datetime"
                       /\ \A i \in 1..Len(before) :
                             after.cells[i] = IF i \in dates THEN Stamp(before[i].s) ELSE Null
                  ELSE IF 10 * Cardinality(decimals) >= 8 * n
                  THEN /\ after.dtype = "float"
                       /\ \A i \in 1..Len(before) :
                             after.cells[i] = IF i \in decimals THEN Number(ParseDecimal(before[i].s)) ELSE Null
                  ELSE after.dtype = "object"

----------------------------------------------------------------------------
(* normalize_values on one column of strings *)

Dollars1200 == <<"$", "1", ",", "2", "0", "0">>

\* values of a scraped column: a percentage, an amount, a word, a number, None
ValueCells == {Null, Text(Percent45), Text(Dollars1200), Text(Word), Text(Hundred)}

ValuesInit ==
    /\ ExtractorOff
    /\ ColumnsOff
    /\ ToolsOff
    /\ \E cells \in CellsUpTo(ValueCells, MaxCells) :
          df0 = Frame(<<SalesHeader>>, <<Column("object", cells)>>)
    /\ frame = df0
    /\ strategy = "drop"
    /\ pandas \in PandasVersions
    /\ stage = "values_called"
    /\ cerror = None
    /\ board = None

\* cleaner.normalize_values(df)
ValuesReturn ==
    /\ stage = "values_called"
    /\ frame' = NormalizeValues(frame)
    /\ stage' = "values_returned"
    /\ UNCHANGED <<df0, strategy, pandas, cerror, board>>
    /\ UNCHANGED <<extractVars, columnVars, toolVars>>

ValuesNext == ValuesReturn

SpecValues == ValuesInit /\ [][ValuesNext]_vars

\* C15: in a string column every value is stripped of '$', ',' and '%' and
\* converted to a number, divided by 100 when at least 50% of the column's
\* values (exactly 50% included) contain '%'; a value that does not convert
\* keeps its original string; no exception is raised; a column ["45%"]
\* gives 0.45 and a column ["$1,200"] gives 1200.
C15_PercentAtFiftyPercent ==
    stage = "values_returned" =>
        LET before == df0.cols[1].cells
            after == frame.cols[1].cells
            strings == {i \in 1..Len(before) : before[i].tag = "str"}
            percents == {i \in strings : \E j \in 1..Len(before[i].s) : before[i].s[j] = "%"}
            divide == 2 * Cardinality(percents) >= Len(before)
            Bare(i) == Remove(before[i].s, {"$", ",", "%"})
        IN  /\ cerror = None
            /\ Len(after) = Len(before)
            /\ \A i \in 1..Len(before) :
                  IF i \in strings /\ MatchesDecimalPattern(Bare(i))
                  THEN after[i] = Number(IF divide THEN ParseDecimal(Bare(i)) \div 100
                                         ELSE ParseDecimal(Bare(i)))
                  ELSE after[i] = before[i]
            /\ before = <<Text(Percent45)>> => after = <<Number(4500)>>
            /\ before = <<Text(Dollars1200)>> => after = <<Number(12000000)>>

----------------------------------------------------------------------------
(* The endpoints of backend/tool_endpoints.py.  Every endpoint extracts    *)
(* the dashboard, patches its local copy and extracts again; the module    *)
(* keeps nothing between two calls.  One dashboard (site) is served during *)
(* a behaviour; what an extraction of it returns is the environment's      *)
(* choice among the outcomes of extract_dashboard.                         *)

\* **kwargs of the endpoint calls
ToolKwargs == [use_ocr |-> "false"]

\* scraped pages with filters and visuals
ToolPages == {p \in Pages : p.tables = 0 /\ p.kpitags = 0 /\ p.svgs = 0 /\ p.blocks = 0}

BlankPage == [tables |-> 0, kpitags |-> 0, selects |-> 0, inputs |-> 0, imgs |-> 0, svgs |-> 0, blocks |-> 0]

Sites ==
    {[source |-> "tableau", auth_type |-> "public", page |-> p] : p \in ToolPages}
    \cup {[source |-> src, auth_type |-> "private", page |-> BlankPage] : src \in {"tableau", "powerbi"}}
    \cup {[source |-> "powerbi", auth_type |-> "public", page |-> BlankPage]}

\* what the adapter method returns when it runs against the site
SiteResults(st, m, use_ocr, ds) ==
    IF m = "tableau.extract_public_dashboard"
    THEN {TableauPublicSuccess(st.page, use_ocr, ocr, ds) : ocr \in OcrResults}
         \cup {TableauPublicFailed(ds, Str(msg)) : msg \in {"fetch failed", "exception"}}
    ELSE AdapterResults(m, use_ocr, ds)

\* every payload extractor.extract_dashboard(source=, auth_type=,
\* drill_state=ds, **kw) can return for the site: the connector fails or
\* raises, the dispatch finds no adapter, the call does not bind, or the
\* adapter's result is unified
ExtractDashboard(st, ds, kw) ==
    LET src == st.source
        auth == st.auth_type
        m == Dispatch(src, auth)
    IN  {FailResult(src, auth, Get(c, "error", None)) :
            c \in {r \in ConnResponses(src, auth) : ConnectionFailed(r)}}
        \cup {FailResult(src, auth, Str("connection reset"))}
        \cup (IF \A r \in ConnResponses(src, auth) : ConnectionFailed(r) THEN {}
              ELSE IF m = "none"
                   THEN {FailResult(src, auth, Str("Unsupported source/auth_type combination."))}
              ELSE IF ~Binds(m)
                   THEN {FailResult(src, auth, Str("got an unexpected keyword argument"))}
              ELSE {EnsureUnifiedSchema(r, src, auth, ds) : r \in SiteResults(st, m, UseOcr(kw), ds)})

\* bool(x) of a selected value
Truthy(x) == x \notin {None, Str(""), Num("0")}

\* d[key] = value on a dict
SetItem(d, key, value) ==
    Dict([k \in DOMAIN d.f \cup {key} |-> IF k = key THEN value ELSE d.f[k]])

\* the component_name of a call that gives none (Python's None)
NoName == "None"

\* x.get("name") == name for an element x of a container; get answers
\* None for an element without the key
Named(x, name) ==
    /\ IsDict(x)
    /\ IF "name" \in DOMAIN x.f THEN x.f.name = name ELSE name = NoName

\* the position at which the loop `for x in elems: if x.get("name") == name`
\* stops: 0 when it runs to the end, -1 when x.get raises AttributeError
\* on an element that is not a dict
Search(elems, name) ==
    LET stops == {i \in 1..Len(elems) : ~IsDict(elems[i]) \/ Named(elems[i], name)}
        first == CHOOSE i \in stops : \A j \in stops : i <= j
    IN  IF stops = {} THEN 0
        ELSE IF IsDict(elems[first]) THEN first ELSE 0 - 1

AttributeError(msg) == Exc("AttributeError", msg)

IndexError(msg) == Exc("IndexError", msg)

\* return {"status": "failed", "error": f"... {name} not found."}
NotFound(what, name) == [status |-> "failed", error |-> <<what, name, "not found.">>]

\* return {"status": "success", "dashboard": dashboard}
Success(d) == [status |-> "success", dashboard |-> d]

\* the values an endpoint is asked to select
FilterValues == {Str("x"), Str(""), Num("0"), None}

FilterTargets == {"f1", "ghost"}

DataPoints == {"p1", "p2"}

\* the drill_state keyword a caller of refresh_dashboard passes on in
\* **kwargs: None when the caller passes none
ForwardedDrillStates == {None, DS({"v1"}, [v \in Visuals |-> <<"L1">>])}

\* the calls a client makes
Calls ==
    {[op |-> "apply_filter", target |-> n, arg |-> v] : n \in FilterTargets, v \in FilterValues}
    \cup {[op |-> "drill_down", target |-> n, arg |-> l] : n \in Visuals, l \in {"L1"}}
    \cup {[op |-> "drill_up", target |-> n, arg |-> ""] : n \in Visuals}
    \cup {[op |-> "highlight_data", target |-> n, arg |-> p] : n \in FilterTargets, p \in DataPoints}
    \cup {[op |-> "clear_filter", target |-> n, arg |-> ""] : n \in FilterTargets \cup {NoName}}
    \cup {[op |-> "refresh_dashboard", target |-> "", arg |-> ds] : ds \in ForwardedDrillStates}

\* the list in items with items[i] replaced by x
Replace(items, i, x) == [j \in 1..Len(items) |-> IF j = i THEN x ELSE items[j]]

\* f.get("selected")
Selected(f) == IF IsDict(f) /\ "selected" \in DOMAIN f.f THEN f.f.selected ELSE None

\* {f["name"]: f.get("selected") for f in filters if f.get("selected")}
ForwardedFilters(items) ==
    LET chosen == SelectSeq(items, LAMBDA f : Truthy(Selected(f)))
    IN  Map([i \in 1..Len(chosen) |-> chosen[i].f.name], [i \in 1..Len(chosen) |-> Selected(chosen[i])])

\* x.get("highlights")
Highlights(x) == IF IsDict(x) /\ "highlights" \in DOMAIN x.f THEN x.f.highlights ELSE <<>>

\* {comp["name"]: comp.get("highlights") for comp in components if comp.get("highlights")}
ForwardedHighlights(items) ==
    LET chosen == SelectSeq(items, LAMBDA c : Highlights(c) # <<>>)
    IN  Map([i \in 1..Len(chosen) |-> chosen[i].f.name], [i \in 1..Len(chosen) |-> Highlights(chosen[i])])

\* visual["drill_state"] after `if "drill_state" not in visual: ... = []`
VisualDrillState(v) == IF "drill_state" \in DOMAIN v.f THEN v.f.drill_state ELSE <<>>

\* drill_state={visual_name: visual["drill_state"]}
OneDrillState(name, levels) == DS({name}, [v \in Visuals |-> levels])

\* lines 40-52 of apply_filter: the loop over dashboard.get("filters", [])
\* and what it leaves in filters
FilterPatch(d, name, value) ==
    LET filters == Get(d, "filters", EmptyList)
        elems == Iterate(filters)
        at == Search(elems, name)
    IN  IF at < 0 THEN [kind |-> "raise", exc |-> AttributeError("'str' object has no attribute 'get'")]
        ELSE IF at = 0 THEN [kind |-> "notfound"]
        ELSE [kind |-> "ok", items |-> Replace(elems, at, SetItem(elems[at], "selected", value))]

\* lines 166-178 of highlight_data: the loop over dashboard.get("components", [])
HighlightPatch(d, name, point) ==
    LET components == Get(d, "components", EmptyList)
        elems == Iterate(components)
        at == Search(elems, name)
    IN  IF at < 0 THEN [kind |-> "raise", exc |-> AttributeError("'str' object has no attribute 'get'")]
        ELSE IF at = 0 THEN [kind |-> "notfound"]
        ELSE [kind |-> "ok", at |-> at,
              items |-> Replace(elems, at, SetItem(elems[at], "highlights", Append(Highlights(elems[at]), point)))]

\* lines 200-210 of clear_filter: the loop over dashboard.get("components", [])
ClearPatch(d, name) ==
    LET components == Get(d, "components", EmptyList)
        elems == Iterate(components)
        at == Search(elems, name)
    IN  IF at < 0 THEN [kind |-> "raise", exc |-> AttributeError("'str' object has no attribute 'get'")]
        ELSE IF at = 0 THEN [kind |-> "notfound"]
        ELSE [kind |-> "ok", at |-> at,
              items |-> Replace(elems, at, SetItem(elems[at], "filters", EmptyList))]

\* x.get("filters")
FiltersOf(x) == IF IsDict(x) /\ "filters" \in DOMAIN x.f THEN x.f.filters ELSE EmptyList

\* {comp["name"]: comp.get("filters") for comp in components if comp.get("filters")}
ForwardedComponentFilters(items) ==
    LET chosen == SelectSeq(items, LAMBDA c : ~IsEmpty(FiltersOf(c)))
    IN  Map([i \in 1..Len(chosen) |-> chosen[i].f.name], [i \in 1..Len(chosen) |-> FiltersOf(chosen[i])])

\* x if x else None
OrNone(x) == IF x \in {EmptyMap, EmptyDS} THEN None ELSE x

\* lines 231-233 of refresh_dashboard: current_filters,
\* current_drill_state and current_highlights of a snapshot
InteractiveState(d) ==
    [filters |-> ForwardedFilters(Iterate(Get(d, "filters", EmptyList))),
     drill_state |-> Get(d, "drill_state", EmptyDS),
     highlights |-> ForwardedHighlights(Iterate(Get(d, "components", EmptyList)))]

\* lines 110-122 of drill_down and 138-149 of drill_up: visuals.values()
\* exists on a dict only; drill_up pops the last level whatever the list holds
DrillPatch(d, name, op, level) ==
    LET visuals == Get(d, "visuals", EmptyMap)
    IN  IF visuals.tag # "map"
        THEN [kind |-> "raise", exc |-> AttributeError("'list' object has no attribute 'values'")]
        ELSE LET at == Search(visuals.vals, name)
             IN  IF at < 0 THEN [kind |-> "raise", exc |-> AttributeError("'str' object has no attribute 'get'")]
                 ELSE IF at = 0 THEN [kind |-> "notfound"]
                 ELSE LET before == VisualDrillState(visuals.vals[at])
                      IN  IF op = "drill_down"
                          THEN [kind |-> "ok", before |-> before, levels |-> Append(before, level)]
                          ELSE IF before = <<>>
                               THEN [kind |-> "raise", exc |-> IndexError("pop from empty list")]
                               ELSE [kind |-> "ok", before |-> before,
                                     levels |-> SubSeq(before, 1, Len(before) - 1)]

\* v's drill_state as the snapshot d reports it
DrillStateOf(d, v) ==
    IF "drill_state" \in DOMAIN d /\ v \in Visuals THEN List(d.drill_state.at[v]) ELSE None

\* what is kept of a finished call: the call, whether it returned or
\* raised, and the target's drill_state in the snapshot it read and in the
\* snapshot it returned
Finished ==
    [call |-> call,
     outcome |-> tpc,
     before |-> DrillStateOf(dashboard, call.target),
     after |-> IF tpc = "returned" /\ response.status = "success"
               THEN DrillStateOf(response.dashboard, call.target)
               ELSE None]

\* the service is up for one dashboard site; no request is in flight
ToolsInit ==
    /\ site \in Sites
    /\ tpc = "idle"
    /\ call = None
    /\ dashboard = None
    /\ sent = None
    /\ response = None
    /\ prev = None
    /\ race = None
    /\ ExtractorOff
    /\ ColumnsOff
    /\ CleanerOff

\* a client posts a request to one of the endpoints
ToolCall(c) ==
    /\ tpc \in {"idle", "returned", "raised"}
    /\ call' = c
    /\ tpc' = "extracting"
    /\ prev' = IF tpc = "idle" THEN None ELSE Finished
    /\ dashboard' = None
    /\ sent' = None
    /\ response' = None
    /\ UNCHANGED <<site, race, extractVars, columnVars, cleanVars>>

\* the drill_state the first extraction of a call is given: the keyword
\* arrives in the endpoint's **kwargs
FirstDrillState(c) == IF c.op = "refresh_dashboard" THEN c.arg ELSE None

\* the first statement of every endpoint:
\* dashboard = extractor.extract_dashboard(source=, auth_type=, **kwargs)
ToolExtract ==
    /\ tpc = "extracting"
    /\ dashboard' \in ExtractDashboard(site, FirstDrillState(call), ToolKwargs)
    /\ tpc' = "patching"
    /\ UNCHANGED <<site, call, sent, response, prev, race, extractVars, columnVars, cleanVars>>

\* the endpoint raises: nothing in it catches
ToolRaises(exc) ==
    /\ tpc' = "raised"
    /\ response' = exc
    /\ sent' = None

\* the endpoint returns without a second extraction
ToolReturns(res) ==
    /\ tpc' = "returned"
    /\ response' = res
    /\ sent' = None

\* apply_filter, lines 40-63
ApplyFilter ==
    /\ tpc = "patching"
    /\ call.op = "apply_filter"
    /\ LET patch == FilterPatch(dashboard, call.target, call.arg)
       IN  CASE patch.kind = "raise" -> ToolRaises(patch.exc)
             [] patch.kind = "notfound" -> ToolReturns(NotFound("Filter", call.target))
             [] patch.kind = "ok" ->
                   \E again \in ExtractDashboard(site, None, ToolKwargs) :
                      /\ sent' = [kw |-> "filters", value |-> ForwardedFilters(patch.items)]
                      /\ response' = Success([again EXCEPT !.filters = List(patch.items)])
                      /\ tpc' = "returned"
    /\ UNCHANGED <<site, call, dashboard, prev, race, extractVars, columnVars, cleanVars>>

\* drill_down, lines 110-125
DrillDown ==
    /\ tpc = "patching"
    /\ call.op = "drill_down"
    /\ LET patch == DrillPatch(dashboard, call.target, "drill_down", call.arg)
       IN  CASE patch.kind = "raise" -> ToolRaises(patch.exc)
             [] patch.kind = "notfound" -> ToolReturns(NotFound("Visual", call.target))
             [] patch.kind = "ok" ->
                   \E again \in ExtractDashboard(site, OneDrillState(call.target, patch.levels), ToolKwargs) :
                      /\ sent' = [kw |-> "drill_state", value |-> OneDrillState(call.target, patch.levels)]
                      /\ response' = Success(again)
                      /\ tpc' = "returned"
    /\ UNCHANGED <<site, call, dashboard, prev, race, extractVars, columnVars, cleanVars>>

\* drill_up, lines 138-152
DrillUp ==
    /\ tpc = "patching"
    /\ call.op = "drill_up"
    /\ LET patch == DrillPatch(dashboard, call.target, "drill_up", call.arg)
       IN  CASE patch.kind = "raise" -> ToolRaises(patch.exc)
             [] patch.kind = "notfound" -> ToolReturns(NotFound("Visual", call.target))
             [] patch.kind = "ok" ->
                   \E again \in ExtractDashboard(site, OneDrillState(call.target, patch.levels), ToolKwargs) :
                      /\ sent' = [kw |-> "drill_state", value |-> OneDrillState(call.target, patch.levels)]
                      /\ response' = Success(again)
                      /\ tpc' = "returned"
    /\ UNCHANGED <<site, call, dashboard, prev, race, extractVars, columnVars, cleanVars>>

\* highlight_data, lines 166-187: the returned dashboard is the second
\* extraction as it comes back
HighlightData ==
    /\ tpc = "patching"
    /\ call.op = "highlight_data"
    /\ LET patch == HighlightPatch(dashboard, call.target, call.arg)
       IN  CASE patch.kind = "raise" -> ToolRaises(patch.exc)
             [] patch.kind = "notfound" -> ToolReturns(NotFound("Component", call.target))
             [] patch.kind = "ok" ->
                   \E again \in ExtractDashboard(site, None, ToolKwargs) :
                      /\ sent' = [kw |-> "highlights", value |-> ForwardedHighlights(patch.items)]
                      /\ response' = Success(again)
                      /\ tpc' = "returned"
    /\ UNCHANGED <<site, call, dashboard, prev, race, extractVars, columnVars, cleanVars>>

\* clear_filter, lines 200-219
ClearFilter ==
    /\ tpc = "patching"
    /\ call.op = "clear_filter"
    /\ LET patch == ClearPatch(dashboard, call.target)
       IN  CASE patch.kind = "raise" -> ToolRaises(patch.exc)
             [] patch.kind = "notfound" -> ToolReturns(NotFound("Component", call.target))
             [] patch.kind = "ok" ->
                   \E again \in ExtractDashboard(site, None, ToolKwargs) :
                      /\ sent' = [kw |-> "filters", value |-> ForwardedComponentFilters(patch.items)]
                      /\ response' = Success(again)
                      /\ tpc' = "returned"
    /\ UNCHANGED <<site, call, dashboard, prev, race, extractVars, columnVars, cleanVars>>

\* refresh_dashboard, lines 231-243: drill_state= is passed by name next
\* to **kwargs, so a drill_state inside kwargs is a second value for it
RefreshDashboard ==
    /\ tpc = "patching"
    /\ call.op = "refresh_dashboard"
    /\ LET current == InteractiveState(dashboard)
       IN  IF call.arg # None
           THEN ToolRaises(Exc("TypeError", "got multiple values for keyword argument 'drill_state'"))
           ELSE \E again \in ExtractDashboard(site, OrNone(current.drill_state), ToolKwargs) :
                   /\ sent' = [kw |-> "refresh",
                               value |-> [filters |-> OrNone(current.filters),
                                          drill_state |-> OrNone(current.drill_state),
                                          highlights |-> OrNone(current.highlights)]]
                   /\ response' = Success(again)
                   /\ tpc' = "returned"
    /\ UNCHANGED <<site, call, dashboard, prev, race, extractVars, columnVars, cleanVars>>

ToolsNext ==
    \/ \E c \in Calls : ToolCall(c)
    \/ ToolExtract
    \/ ApplyFilter
    \/ DrillDown
    \/ DrillUp
    \/ HighlightData
    \/ ClearFilter
    \/ RefreshDashboard

SpecTools == ToolsInit /\ [][ToolsNext]_vars

----------------------------------------------------------------------------
(* The endpoint contracts *)

\* the elements of a list
Range(items) == {items[i] : i \in 1..Len(items)}

\* a request has run to its end
ToolDone == tpc \in {"returned", "raised"}

\* the filters whose selection is not null, name -> selected value
SelectedFilters(items) ==
    LET chosen == SelectSeq(items, LAMBDA f : Selected(f) # None)
    IN  Map([i \in 1..Len(chosen) |-> chosen[i].f.name], [i \in 1..Len(chosen) |-> Selected(chosen[i])])

\* the highlights of the component called name in snapshot d, or None
\* when d holds no such component
HighlightsOf(d, name) ==
    LET elems == Iterate(d.components)
        at == Search(elems, name)
    IN  IF at > 0 THEN List(Highlights(elems[at])) ELSE None

\* C16: drill_down(v, L) followed by drill_up(v) yields a snapshot in which
\* v's drill_state equals its value before the drill_down
C16_DrillRoundTrip ==
    (/\ ToolDone
     /\ call.op = "drill_up"
     /\ prev # None
     /\ prev.call.op = "drill_down"
     /\ prev.call.target = call.target)
    => /\ prev.outcome = "returned"
       /\ tpc = "returned"
       /\ response.status = "success"
       /\ DrillStateOf(response.dashboard, call.target) = prev.before

\* C17: drill_up on a dashboard whose visuals carry no drill_state does not
\* raise: it returns a reported failure and the drill_state stays empty
C17_DrillUpOnEmptyReported ==
    (/\ ToolDone
     /\ call.op = "drill_up"
     /\ dashboard.status = "success"
     /\ ~IsEmpty(dashboard.visuals)
     /\ \A x \in Range(Iterate(dashboard.visuals)) : IsDict(x) /\ "drill_state" \notin DOMAIN x.f)
    => /\ tpc = "returned"
       /\ response.status = "failed"
       /\ sent = None

\* C18: apply_filter, drill_down and drill_up called with a name that is
\* absent from the snapshot return a failed NotFound result instead of
\* raising, and issue no second extraction
C18_AbsentNameNotFound ==
    (/\ ToolDone
     /\ call.op \in {"apply_filter", "drill_down", "drill_up"}
     /\ LET container == IF call.op = "apply_filter" THEN dashboard.filters ELSE dashboard.visuals
        IN  \A x \in Range(Iterate(container)) : ~Named(x, call.target))
    => /\ tpc = "returned"
       /\ response = NotFound(IF call.op = "apply_filter" THEN "Filter" ELSE "Visual", call.target)
       /\ sent = None

\* C19: apply_filter on a present filter sets its selected value and
\* re-extracts with exactly the filters whose selection is non-null,
\* falsy selections such as 0 and "" included
C19_ForwardsNonNullSelections ==
    (/\ tpc = "returned"
     /\ call.op = "apply_filter"
     /\ \E x \in Range(Iterate(dashboard.filters)) : Named(x, call.target))
    => /\ response.status = "success"
       /\ \E x \in Range(response.dashboard.filters.items) :
              Named(x, call.target) /\ Selected(x) = call.arg
       /\ sent = [kw |-> "filters", value |-> SelectedFilters(response.dashboard.filters.items)]

\* C20: highlight_data(c, p) is an idempotent append: the returned snapshot
\* holds p in c's highlights exactly once, at the end when it was not there
\* before, and c's other highlights are unchanged
C20_HighlightIdempotentAppend ==
    (/\ tpc = "returned"
     /\ call.op = "highlight_data"
     /\ HighlightsOf(dashboard, call.target) # None)
    => /\ response.status = "success"
       /\ LET before == HighlightsOf(dashboard, call.target).items
              point == call.arg
          IN  HighlightsOf(response.dashboard, call.target) =
                  List(IF \E i \in 1..Len(before) : before[i] = point
                       THEN before
                       ELSE Append(before, point))

\* the component clear_filter is to clear is in the snapshot: the named
\* one, or any at all when no name is given
ClearTargetPresent ==
    IF call.target = NoName
    THEN TRUE
    ELSE \E x \in Range(Iterate(dashboard.components)) : Named(x, call.target)

\* C21: clear_filter with a component name clears that component's
\* selection, with no name it clears every selection; in both cases a
\* re-extraction follows and its snapshot is the one returned
C21_ClearFilterReextracts ==
    (/\ ToolDone
     /\ call.op = "clear_filter"
     /\ dashboard.status = "success"
     /\ ClearTargetPresent)
    => /\ tpc = "returned"
       /\ response.status = "success"
       /\ sent # None
       /\ response.dashboard \in ExtractDashboard(site, None, ToolKwargs)
       /\ InteractiveState(response.dashboard).filters = EmptyMap

\* C22: refresh re-extracts with the filter selections, drill_state and
\* highlights of the latest snapshot passed forward, and the returned
\* snapshot holds the same selections, drill_state and highlights
C22_RefreshPreservesState ==
    (/\ ToolDone
     /\ call.op = "refresh_dashboard"
     /\ dashboard.status = "success")
    => /\ tpc = "returned"
       /\ response.status = "success"
       /\ sent = [kw |-> "refresh",
                  value |-> [filters |-> OrNone(InteractiveState(dashboard).filters),
                             drill_state |-> OrNone(InteractiveState(dashboard).drill_state),
                             highlights |-> OrNone(InteractiveState(dashboard).highlights)]]
       /\ InteractiveState(response.dashboard) = InteractiveState(dashboard)

----------------------------------------------------------------------------
(* Repeated extraction: the extractor object across calls.  __init__      *)
(* builds the two adapters and the OCR helper; extract_dashboard and the  *)
(* unifier assign no attribute, so nothing of a call outlives it.         *)

\* the pages a repeated call is run against: at most one element
PurePages ==
    {p \in Pages : p.tables + p.kpitags + p.selects + p.inputs + p.imgs + p.svgs + p.blocks <= 1}

\* the arguments of the repeated calls
PureSources == {"tableau", "powerbi", ""}

PureAuthTypes == {"public", "private"}

PureDrillStates == {None, DS({"v1"}, [v \in Visuals |-> <<"L1">>])}

PureKwargs == {kw \in KwargsSet : kw.use_ocr # "true"}

\* what the adapter method answers on such a page
PureAdapterResults(m, use_ocr, ds) ==
    IF m = "tableau.extract_public_dashboard"
    THEN {TableauPublicSuccess(p, use_ocr, ocr, ds) : p \in PurePages, ocr \in OcrResults}
         \cup {TableauPublicFailed(ds, Str(msg)) : msg \in {"fetch failed", "exception"}}
    ELSE AdapterResults(m, use_ocr, ds)

\* the call that has just ended: its arguments, the answers of the
\* connector and of the adapter, and its result
Ended ==
    [source |-> source, auth_type |-> auth_type, drill_state |-> drill_state,
     kwargs |-> kwargs, conn |-> conn, raw |-> raw, raised |-> raised, result |-> result]

\* a caller starts a call; the call that ended may be the one that is
\* compared with a later one
PureCall(src, auth, ds, kw) ==
    /\ Enter(src, auth, ds, kw)
    /\ earlier' \in (IF pc \in TerminalPcs THEN {earlier, Ended} ELSE {earlier})

PureNext ==
    \/ \E src \in PureSources, auth \in PureAuthTypes, ds \in PureDrillStates, kw \in PureKwargs :
          PureCall(src, auth, ds, kw)
    \/ /\ pc = "connecting"
       /\ \E c \in ConnResponses(source, auth_type) : Connect(c)
    \/ ConnectRaises
    \/ ExtractUnsupported
    \/ ExtractBindingError
    \/ /\ pc = "extracting"
       /\ \E r \in PureAdapterResults(Dispatch(source, auth_type), UseOcr(kwargs), drill_state) :
             ExtractAdapter(r)
    \/ Unify

SpecPure == Init /\ [][PureNext]_vars

\* the call that has ended had the arguments and met the answers of the
\* earlier one
SameCallAsEarlier ==
    /\ pc \in TerminalPcs
    /\ earlier # None
    /\ earlier.source = source
    /\ earlier.auth_type = auth_type
    /\ earlier.drill_state = drill_state
    /\ earlier.kwargs = kwargs
    /\ earlier.conn = conn
    /\ earlier.raw = raw
    /\ earlier.raised = raised

----------------------------------------------------------------------------
(* Two requests against the same dashboard.  Each handler works on its    *)
(* own locals; the only object the handlers share is the module-level     *)
(* extractor, which holds no state of a call.                             *)

Raised(exc) == [tpc |-> "raised", sent |-> None, response |-> exc]

Returned0(res) == [tpc |-> "returned", sent |-> None, response |-> res]

Reextracted(kw, value, dashboards) ==
    {[tpc |-> "returned", sent |-> [kw |-> kw, value |-> value], response |-> Success(d)] : d \in dashboards}

\* every way the handler of call c can end after its first extraction
\* returned d: the statements after the first one, as in ApplyFilter,
\* DrillDown, DrillUp and HighlightData
HandlerOutcomes(st, c, d) ==
    LET patch == CASE c.op = "apply_filter" -> FilterPatch(d, c.target, c.arg)
                   [] c.op = "highlight_data" -> HighlightPatch(d, c.target, c.arg)
                   [] OTHER -> DrillPatch(d, c.target, c.op, c.arg)
        what == CASE c.op = "apply_filter" -> "Filter"
                  [] c.op = "highlight_data" -> "Component"
                  [] OTHER -> "Visual"
    IN  CASE patch.kind = "raise" -> {Raised(patch.exc)}
          [] patch.kind = "notfound" -> {Returned0(NotFound(what, c.target))}
          [] c.op = "apply_filter" ->
                {[o EXCEPT !.response = Success([o.response.dashboard EXCEPT !.filters = List(patch.items)])] :
                    o \in Reextracted("filters", ForwardedFilters(patch.items),
                                      ExtractDashboard(st, None, ToolKwargs))}
          [] c.op = "highlight_data" ->
                Reextracted("highlights", ForwardedHighlights(patch.items),
                            ExtractDashboard(st, None, ToolKwargs))
          [] OTHER ->
                Reextracted("drill_state", OneDrillState(c.target, patch.levels),
                            ExtractDashboard(st, OneDrillState(c.target, patch.levels), ToolKwargs))

Handlers == {1, 2}

\* the mutations the two clients send
RaceCalls ==
    {[op |-> "apply_filter", target |-> "f1", arg |-> v] : v \in {Str("x"), Num("0")}}
    \cup {[op |-> "drill_down", target |-> "v1", arg |-> "L1"],
          [op |-> "drill_up", target |-> "v1", arg |-> ""],
          [op |-> "highlight_data", target |-> "f1", arg |-> "p1"]}

\* a handler that has not been called
IdleHandler ==
    [tpc |-> "idle", call |-> None, dashboard |-> None, sent |-> None, response |-> None, rank |-> 0]

\* the service is up for one dashboard; both clients are about to call
RaceInit ==
    /\ site \in Sites
    /\ race = [h \in Handlers |-> IdleHandler]
    /\ tpc = "off"
    /\ call = None
    /\ dashboard = None
    /\ sent = None
    /\ response = None
    /\ prev = None
    /\ ExtractorOff
    /\ ColumnsOff
    /\ CleanerOff

\* how many handlers have ended
Ended2 == Cardinality({h \in Handlers : race[h].tpc \in {"returned", "raised"}})

\* a request arrives at handler h
RaceCall(h, c) ==
    /\ race # None
    /\ race[h].tpc = "idle"
    /\ race' = [race EXCEPT ![h] = [IdleHandler EXCEPT !.tpc = "extracting", !.call = c]]
    /\ UNCHANGED <<site, tpc, call, dashboard, sent, response, prev, extractVars, columnVars, cleanVars>>

\* the first extraction of handler h
RaceExtract(h) ==
    /\ race # None
    /\ race[h].tpc = "extracting"
    /\ \E d \in ExtractDashboard(site, None, ToolKwargs) :
          race' = [race EXCEPT ![h].dashboard = d, ![h].tpc = "patching"]
    /\ UNCHANGED <<site, tpc, call, dashboard, sent, response, prev, extractVars, columnVars, cleanVars>>

\* handler h patches its own dashboard, extracts again and returns, or raises
RaceFinish(h) ==
    /\ race # None
    /\ race[h].tpc = "patching"
    /\ \E o \in HandlerOutcomes(site, race[h].call, race[h].dashboard) :
          race' = [race EXCEPT ![h].tpc = o.tpc, ![h].sent = o.sent,
                               ![h].response = o.response, ![h].rank = Ended2 + 1]
    /\ UNCHANGED <<site, tpc, call, dashboard, sent, response, prev, extractVars, columnVars, cleanVars>>

RaceNext ==
    \/ \E h \in Handlers, c \in RaceCalls : RaceCall(h, c)
    \/ \E h \in Handlers : RaceExtract(h)
    \/ \E h \in Handlers : RaceFinish(h)

SpecRace == RaceInit /\ [][RaceNext]_vars

\* snapshot d shows the mutation of call c
MutationShown(c, d) ==
    CASE c.op = "apply_filter" ->
            \E x \in Range(Iterate(d.filters)) : Named(x, c.target) /\ Selected(x) = c.arg
      [] c.op = "highlight_data" ->
            /\ HighlightsOf(d, c.target) # None
            /\ \E i \in 1..Len(HighlightsOf(d, c.target).items) : HighlightsOf(d, c.target).items[i] = c.arg
      [] c.op = "drill_down" ->
            /\ DrillStateOf(d, c.target) # None
            /\ DrillStateOf(d, c.target).items # <<>>
            /\ DrillStateOf(d, c.target).items[Len(DrillStateOf(d, c.target).items)] = c.arg
      [] OTHER -> TRUE

\* both handlers ran while the other was in flight and both have ended
RaceOver == race # None /\ \A h \in Handlers : race[h].tpc \in {"returned", "raised"}

\* C24: when two mutation calls against the same dashboard interleave,
\* neither crashes, and the snapshot of the one applied last, when its
\* extractions succeed, shows its mutation
C24_InterleavedMutationsComplete ==
    RaceOver =>
        /\ \A h \in Handlers : race[h].tpc = "returned"
        /\ \A h \in Handlers :
              (/\ race[h].rank = Cardinality(Handlers)
               /\ race[h].response.status = "success"
               /\ race[h].response.dashboard.status = "success")
              => MutationShown(race[h].call, race[h].response.dashboard)

----------------------------------------------------------------------------
(* DataCleaner.clean_unified_dashboard_data.  A component, a filter or a   *)
(* visual is a Python dict: its keys in insertion order and their values.  *)
(* Keys and text values are sequences of characters, as in the frames.     *)

KeyType == <<"t", "y", "p", "e">>

KeyName == <<"n", "a", "m", "e">>

KeyValue == <<"v", "a", "l", "u", "e">>

KeyId == <<"i", "d">>

KeySections == <<"s", "e", "c", "t", "i", "o", "n", "s">>

KeyHighlights == <<"h", "i", "g", "h", "l", "i", "g", "h", "t", "s">>

KeyDrillState == <<"d", "r", "i", "l", "l", "_", "s", "t", "a", "t", "e">>

WordTable == <<"t", "a", "b", "l", "e">>

WordKpi == <<"k", "p", "i">>

WordFilter == <<"f", "i", "l", "t", "e", "r">>

WordVisual == <<"v", "i", "s", "u", "a", "l">>

WordLayout == <<"l", "a", "y", "o", "u", "t">>

WordUnknown == <<"u", "n", "k", "n", "o", "w", "n">>

\* {k1: v1, k2: v2, ...}
Rec(keys, vals) == [keys |-> keys, vals |-> vals]

\* key in d
HasKey(d, key) == \E i \in 1..Len(d.keys) : d.keys[i] = key

\* d[key]
ValueAt(d, key) == d.vals[CHOOSE i \in 1..Len(d.keys) : d.keys[i] = key]

\* d[key] = val: a new key goes to the end
Assign(d, key, val) ==
    IF HasKey(d, key)
    THEN Rec(d.keys, [i \in 1..Len(d.keys) |-> IF d.keys[i] = key THEN val ELSE d.vals[i]])
    ELSE Rec(Append(d.keys, key), Append(d.vals, val))

\* d.pop(key, default), for what is left in d
Pop(d, key) ==
    LET rest == SelectSeq([i \in 1..Len(d.keys) |-> i], LAMBDA i : d.keys[i] # key)
    IN  Rec([k \in 1..Len(rest) |-> d.keys[rest[k]]], [k \in 1..Len(rest) |-> d.vals[rest[k]]])

\* pd.DataFrame([d]) for a dict of strings, numbers and None
RecordFrame(d) ==
    Frame(d.keys,
          [i \in 1..Len(d.keys) |->
              Column(IF d.vals[i].tag = "num" THEN "float" ELSE "object", <<d.vals[i]>>)])

\* df.to_dict(orient="records")[0]
FirstRecord(fr) == Rec(fr.names, [c \in 1..Len(fr.cols) |-> fr.cols[c].cells[1]])

\* pd.DataFrame(rows, columns=headers) if headers and rows else
\* pd.DataFrame(rows), for rows as long as the headers; without headers
\* the columns of pd.DataFrame(rows) are labelled 0, 1, ...
TableFrame(table) ==
    IF table.headers # <<>> /\ table.rows # <<>>
    THEN Frame(table.headers,
               [c \in 1..Len(table.headers) |->
                   Column("object", [r \in 1..Len(table.rows) |-> table.rows[r][c]])])
    ELSE Frame(<<>>, <<>>)

\* the columns of the frame are labelled with integers
IntegerLabels(table) == table.headers = <<>> /\ table.rows # <<>>

\* AttributeError of col.strip() on an integer label
NoStrip == [kind |-> "AttributeError", msg |-> "'int' object has no attribute 'strip'", strategy |-> ""]

\* IndexError of [0] on an empty list of records
NoRecord == [kind |-> "IndexError", msg |-> "list index out of range", strategy |-> ""]

\* DataCleaner.clean on one frame: the frame it returns, or the error
Clean(fr, strat, version) ==
    IF strat \notin SupportedStrategies
    THEN [error |-> UnsupportedStrategy(strat), frame |-> fr]
    ELSE LET named == {Frame(NormalizeColumnNames(fr.names), fr.cols)}
             typed == {ConvertDataTypes(f, version) : f \in named}
             filled == {HandleMissingValues(f, strat) : f \in typed}
             normal == {NormalizeValues(f) : f \in filled}
             categories == {StandardizeCategories(f) : f \in normal}
             dated == {ParseDates(f) : f \in categories}
         IN  [error |-> None, frame |-> CHOOSE f \in dated : TRUE]

\* the loop over extracted["tables"]
RECURSIVE CleanTables(_, _, _)
CleanTables(tables, strat, version) ==
    IF tables = <<>> THEN [error |-> None, out |-> <<>>]
    ELSE IF IntegerLabels(Head(tables)) THEN [error |-> NoStrip, out |-> <<>>]
    ELSE CHOOSE answer \in
            {IF first.error # None THEN [error |-> first.error, out |-> <<>>]
             ELSE [error |-> rest.error, out |-> <<first.frame>> \o rest.out] :
                first \in {Clean(TableFrame(Head(tables)), strat, version)},
                rest \in {CleanTables(Tail(tables), strat, version)}} : TRUE

\* the loops over kpis, filters and visuals: a dict becomes a cleaned
\* one-row frame, anything else is appended as it is
RECURSIVE CleanItems(_, _, _)
CleanItems(items, strat, version) ==
    IF items = <<>> THEN [error |-> None, out |-> <<>>]
    ELSE IF "keys" \notin DOMAIN Head(items)
         THEN CHOOSE answer \in
                 {[error |-> rest.error, out |-> <<Head(items)>> \o rest.out] :
                     rest \in {CleanItems(Tail(items), strat, version)}} : TRUE
    ELSE CHOOSE answer \in
            {IF first.error # None THEN [error |-> first.error, out |-> <<>>]
             ELSE [error |-> rest.error, out |-> <<first.frame>> \o rest.out] :
                first \in {Clean(RecordFrame(Head(items)), strat, version)},
                rest \in {CleanItems(Tail(items), strat, version)}} : TRUE

\* the rest of the loop body once self.clean has answered with df
Rebuild(popped, highlights, drill, df) ==
    IF df.error # None THEN [error |-> df.error, input |-> popped, out |-> None]
    ELSE IF RowCount(df.frame) = 0 THEN [error |-> NoRecord, input |-> popped, out |-> None]
    ELSE LET comp_cleaned == Assign(FirstRecord(df.frame), KeyHighlights, highlights)
         IN  [error |-> None, input |-> popped,
              out |-> IF drill # Null
                      THEN Assign(comp_cleaned, KeyDrillState, drill)
                      ELSE comp_cleaned]

\* the body of the loop over extracted["components"] for one dict: what
\* the dict of the input holds afterwards, and the cleaned component
CleanComponent(comp, strat, version) ==
    LET present == IF HasKey(comp, KeyHighlights) THEN comp ELSE Assign(comp, KeyHighlights, List(<<>>))
        comp_type == IF HasKey(present, KeyType) THEN ValueAt(present, KeyType) ELSE Text(WordUnknown)
    IN  IF comp_type \notin {Text(WordTable), Text(WordKpi), Text(WordFilter), Text(WordVisual)}
        THEN [error |-> None, input |-> present, out |-> present]
        ELSE LET highlights == ValueAt(present, KeyHighlights)
                 drill == IF HasKey(present, KeyDrillState) THEN ValueAt(present, KeyDrillState) ELSE Null
                 popped == Pop(Pop(present, KeyHighlights), KeyDrillState)
             IN  CHOOSE answer \in
                    {Rebuild(popped, highlights, drill, df) :
                        df \in {Clean(RecordFrame(popped), strat, version)}} : TRUE

\* the loop over extracted["components"]: it stops at the first error
RECURSIVE CleanComponents(_, _, _)
CleanComponents(comps, strat, version) ==
    IF comps = <<>> THEN [error |-> None, input |-> <<>>, out |-> <<>>]
    ELSE CHOOSE answer \in
            {IF first.error # None
             THEN [error |-> first.error, input |-> <<first.input>> \o Tail(comps), out |-> <<>>]
             ELSE CHOOSE whole \in
                     {[error |-> rest.error, input |-> <<first.input>> \o rest.input,
                       out |-> <<first.out>> \o rest.out] :
                         rest \in {CleanComponents(Tail(comps), strat, version)}} : TRUE :
                first \in {CleanComponent(Head(comps), strat, version)}} : TRUE

\* the dict handed in: the keys it holds and their values
Board(present, at) == [present |-> present, at |-> at]

\* extracted.get(key, default)
Lookup(d, key, default) == IF key \in d.present THEN d.at[key] ELSE default

\* DataCleaner.clean_unified_dashboard_data: the error it raises or the
\* dict it returns, and what the dict handed in holds afterwards; the
\* answer of each loop is computed once and named
CleanUnifiedDashboardData(extracted, strat, version) ==
    CHOOSE answer \in
       {LET lists == <<tables, kpis, filters, visuals>>
            early == {i \in 1..4 : lists[i].error # None}
            touched == IF "components" \in extracted.present
                       THEN [extracted EXCEPT !.at.components = components.input]
                       ELSE extracted
        IN  IF early # {}
            THEN [error |-> lists[CHOOSE i \in early : \A j \in early : i <= j].error,
                  extracted |-> extracted, cleaned |-> None]
            ELSE IF components.error # None
            THEN [error |-> components.error, extracted |-> touched, cleaned |-> None]
            ELSE [error |-> None, extracted |-> touched,
                  cleaned |-> [tables |-> tables.out, kpis |-> kpis.out, filters |-> filters.out,
                               visuals |-> visuals.out,
                               layout |-> Lookup(extracted, "layout", EmptyMap),
                               components |-> components.out,
                               html_text |-> Lookup(extracted, "html_text", Str("")),
                               error |-> Lookup(extracted, "error", None),
                               source |-> Lookup(extracted, "source", Str("")),
                               auth_type |-> Lookup(extracted, "auth_type", Str("")),
                               drill_state |-> Lookup(extracted, "drill_state", EmptyMap)]] :
           tables \in {CleanTables(Lookup(extracted, "tables", <<>>), strat, version)},
           kpis \in {CleanItems(Lookup(extracted, "kpis", <<>>), strat, version)},
           filters \in {CleanItems(Lookup(extracted, "filters", <<>>), strat, version)},
           visuals \in {CleanItems(Lookup(extracted, "visuals", <<>>), strat, version)},
           components \in {CleanComponents(Lookup(extracted, "components", <<>>), strat, version)}} : TRUE

MaxComponents == 2    \* components of a dashboard handed to the cleaner

WordInput == <<"i", "n", "p", "u", "t">>

\* components as the public adapters make them (a KPI, an <input> without
\* a value attribute, a layout entry, a widget without an id), a visual
\* that carries a drill path, and a KPI without a highlights key
ComponentPool ==
    {Rec(<<KeyType, KeyName, KeyValue, KeyHighlights>>,
         <<Text(WordKpi), Text(Word), Text(Hundred), List(<<"p1">>)>>),
     Rec(<<KeyType, KeyName, KeyValue, KeyHighlights>>,
         <<Text(WordFilter), Text(Word), Null, List(<<>>)>>),
     Rec(<<KeyType, KeyName, KeyHighlights, KeyDrillState>>,
         <<Text(WordVisual), Text(Word), List(<<"p1">>), List(<<"L1">>)>>),
     Rec(<<KeyType, KeyValue>>, <<Text(WordKpi), Text(Percent45)>>),
     Rec(<<KeyType, KeySections, KeyHighlights>>, <<Text(WordLayout), List(<<>>), List(<<>>)>>),
     Rec(<<KeyId, KeyName>>, <<Null, Text(Word)>>)}

\* extracted["tables"]: none, one table with a header and a row, one
\* table without headers
TablePool ==
    {<<>>,
     <<[headers |-> <<Word>>, rows |-> <<<<Text(Hundred)>>>>]>>,
     <<[headers |-> <<>>, rows |-> <<<<Text(Hundred)>>>>]>>}

\* extracted["filters"]: none, or the filter of an <input> without a value
FilterPool ==
    {<<>>, <<Rec(<<KeyType, KeyName, KeyValue>>, <<Text(WordInput), Text(Word), Null>>)>>}

BoardKeys ==
    {"tables", "kpis", "filters", "visuals", "layout", "components", "html_text",
     "error", "source", "auth_type", "drill_state"}

\* the dashboards handed to the cleaner: the empty dict and unified ones
BoardInputs ==
    {Board(present,
           [tables |-> tables, kpis |-> <<Text(Hundred)>>, filters |-> filters, visuals |-> <<>>,
            layout |-> EmptyMap, components |-> comps, html_text |-> Str(""), error |-> None,
            source |-> Str("tableau"), auth_type |-> Str("public"), drill_state |-> EmptyMap]) :
        present \in {BoardKeys},
        tables \in TablePool, filters \in FilterPool,
        comps \in CellsUpTo(ComponentPool, MaxComponents)}
    \cup {Board({}, [tables |-> <<>>, kpis |-> <<>>, filters |-> <<>>, visuals |-> <<>>,
                     layout |-> EmptyMap, components |-> <<>>, html_text |-> Str(""),
                     error |-> None, source |-> Str(""), auth_type |-> Str(""),
                     drill_state |-> EmptyMap])}

\* a cleaner is built with a strategy and handed a dashboard
BoardInit ==
    /\ ExtractorOff
    /\ ColumnsOff
    /\ ToolsOff
    /\ \E d \in BoardInputs : board = [before |-> d, extracted |-> d, cleaned |-> None, again |-> None]
    /\ frame = [names |-> <<>>, cols |-> <<>>]
    /\ df0 = [names |-> <<>>, cols |-> <<>>]
    /\ strategy \in Strategies
    /\ pandas \in PandasVersions
    /\ stage = "board_called"
    /\ cerror = None

\* cleaned = cleaner.clean_unified_dashboard_data(extracted)
CleanBoard ==
    /\ stage = "board_called"
    /\ \E o \in {CleanUnifiedDashboardData(board.extracted, strategy, pandas)} :
           /\ board' = [board EXCEPT !.extracted = o.extracted, !.cleaned = o.cleaned]
           /\ cerror' = o.error
           /\ stage' = IF o.error = None THEN "board_returned" ELSE "board_raised"
    /\ UNCHANGED <<frame, df0, strategy, pandas>>
    /\ UNCHANGED <<extractVars, columnVars, toolVars>>

\* the same dict is cleaned a second time
CleanBoardAgain ==
    /\ stage = "board_returned"
    /\ \E o \in {CleanUnifiedDashboardData(board.extracted, strategy, pandas)} :
           /\ board' = [board EXCEPT !.extracted = o.extracted, !.again = o.cleaned]
           /\ cerror' = o.error
           /\ stage' = IF o.error = None THEN "board_twice" ELSE "board_raised_again"
    /\ UNCHANGED <<frame, df0, strategy, pandas>>
    /\ UNCHANGED <<extractVars, columnVars, toolVars>>

BoardNext == CleanBoard \/ CleanBoardAgain

SpecBoard == BoardInit /\ [][BoardNext]_vars

\* the components of the dict handed in, before the call
ComponentsBefore == Lookup(board.before, "components", <<>>)

\* component i of the returned dashboard carries the highlights, and the
\* drill_state, that component i of the input had
KeepsHighlights(out, i) ==
    /\ HasKey(out[i], KeyHighlights)
    /\ ValueAt(out[i], KeyHighlights) =
          (IF HasKey(ComponentsBefore[i], KeyHighlights)
           THEN ValueAt(ComponentsBefore[i], KeyHighlights) ELSE List(<<>>))
    /\ HasKey(ComponentsBefore[i], KeyDrillState) =>
          /\ HasKey(out[i], KeyDrillState)
          /\ ValueAt(out[i], KeyDrillState) = ValueAt(ComponentsBefore[i], KeyDrillState)

\* C25: clean_unified_dashboard_data does not raise, whatever dashboard it
\* is handed; the dashboard it returns has all the fields of the schema and
\* every component in it carries the highlights (and the drill_state) of
\* the input component.
C25_CleanReturnsWholeDashboard ==
    (board # None /\ stage \in {"board_returned", "board_raised"}) =>
        /\ stage = "board_returned"
        /\ cerror = None
        /\ {"tables", "kpis", "filters", "visuals", "layout", "components", "html_text",
            "drill_state", "error"} \subseteq DOMAIN board.cleaned
        /\ Len(board.cleaned.components) = Len(ComponentsBefore)
        /\ \A i \in 1..Len(ComponentsBefore) : KeepsHighlights(board.cleaned.components, i)

\* C30: clean_unified_dashboard_data leaves the dict it is handed as it was,
\* every component with the fields it had, so a second cleaning of the same
\* dict returns what the first returned.
C30_CleanLeavesInputUnchanged ==
    /\ (board # None /\ stage \in {"board_returned", "board_raised"}) => board.extracted = board.before
    /\ (board # None /\ stage = "board_twice") => board.again = board.cleaned

----------------------------------------------------------------------------
(* The public adapters called on a scraped page *)

\* a public page of one of the two vendors is about to be extracted
AdapterInit ==
    /\ pc = "adapter_called"
    /\ source \in {"tableau", "powerbi"}
    /\ auth_type = "public"
    /\ drill_state = None
    /\ kwargs \in [use_ocr : {"true", "false"}]
    /\ \E p \in Pages :
          /\ source = "powerbi" => p.kpitags = 0
          /\ site = [source |-> source, auth_type |-> "public", page |-> p]
    /\ conn = None
    /\ raw = None
    /\ result = None
    /\ invoked = {}
    /\ raised = None
    /\ escaped = FALSE
    /\ trail = <<>>
    /\ earlier = None
    /\ ocr_result = None
    /\ tpc = "off"
    /\ call = None
    /\ dashboard = None
    /\ sent = None
    /\ response = None
    /\ prev = None
    /\ race = None
    /\ ColumnsOff
    /\ CleanerOff

\* extract_public_dashboard(url, use_ocr=...) runs to its return statement;
\* with use_ocr the OCR helper is asked once and answers success or failed
ExtractPublicDashboard ==
    /\ pc = "adapter_called"
    /\ \E o \in OcrResults :
          /\ ocr_result' = IF UseOcr(kwargs) THEN o ELSE None
          /\ raw' = IF source = "tableau"
                    THEN TableauPublicSuccess(site.page, UseOcr(kwargs), o, drill_state)
                    ELSE PowerBIPublicSuccess(site.page, UseOcr(kwargs), o, drill_state)
    /\ invoked' = invoked \cup {Dispatch(source, auth_type)}
    /\ pc' = "adapter_returned"
    /\ UNCHANGED <<source, auth_type, drill_state, kwargs, conn, result, raised, escaped, trail, earlier>>
    /\ UNCHANGED <<columnVars, cleanVars, toolVars>>

\* the page cannot be fetched, or parsing it raises: the except branch
ExtractPublicFails ==
    /\ pc = "adapter_called"
    /\ \E msg \in {"fetch failed", "exception"} :
          raw' = IF source = "tableau"
                 THEN TableauPublicFailed(drill_state, Str(msg))
                 ELSE PowerBIPublicFailed(drill_state, Str(msg))
    /\ invoked' = invoked \cup {Dispatch(source, auth_type)}
    /\ pc' = "adapter_failed"
    /\ UNCHANGED <<source, auth_type, drill_state, kwargs, conn, result, raised, escaped, trail, earlier, ocr_result>>
    /\ UNCHANGED <<columnVars, cleanVars, toolVars>>

AdapterNext == ExtractPublicDashboard \/ ExtractPublicFails

SpecAdapters == AdapterInit /\ [][AdapterNext]_vars

\* the component records of an adapter result, in order
ComponentRecords(r) ==
    CASE r.components.tag = "list" -> r.components.items
      [] r.components.tag = "map" -> r.components.vals
      [] OTHER -> <<>>

\* a component entry that stands for a failure
Placeholder(c) ==
    /\ IsDict(c)
    /\ \/ "type" \in DOMAIN c.f /\ c.f.type = "error"
       \/ "message" \in DOMAIN c.f
       \/ "error" \in DOMAIN c.f

\* what the same page gives when the OCR pass finds no number
WithoutNumbers ==
    LET none == [status |-> "success", numbers |-> <<>>, error |-> None]
    IN  IF source = "tableau"
        THEN TableauPublicSuccess(site.page, TRUE, none, drill_state)
        ELSE PowerBIPublicSuccess(site.page, TRUE, none, drill_state)

\* the OCR pass of the finished extraction failed
OcrFailed == pc = "adapter_returned" /\ ocr_result # None /\ ocr_result.status = "failed"

\* C26: when the OCR pass of a public extraction fails, the adapter still
\* returns status success, the components of the page that do not depend on
\* OCR are the ones it returns otherwise, and components holds a placeholder
\* entry for the failure, for the Power BI and the Tableau adapter alike.
C26_OcrFailureBecomesPlaceholder ==
    OcrFailed =>
        /\ raw.status = "success"
        /\ SelectSeq(ComponentRecords(raw), LAMBDA c : ~Placeholder(c)) = ComponentRecords(WithoutNumbers)
        /\ \E i \in 1..Len(ComponentRecords(raw)) : Placeholder(ComponentRecords(raw)[i])

----------------------------------------------------------------------------
(* handle_missing_values with the strategy fill_mean *)

MaxFilled == 3        \* rows of a frame handed to handle_missing_values

\* values of a numeric column: 1.0, 3.0, NaN
AmountCells == {Null, Number(10000), Number(30000)}

\* values of a categorical column: "b", "a", None
LabelCells == {Null, Text(<<"b">>), Text(<<"a">>)}

FillInit ==
    /\ ExtractorOff
    /\ ColumnsOff
    /\ ToolsOff
    /\ \E n \in 0..MaxFilled :
          \E amounts \in [1..n -> AmountCells], labels \in [1..n -> LabelCells] :
             df0 = Frame(<<SalesHeader, DateHeader>>, <<Column("float", amounts), Column("object", labels)>>)
    /\ frame = df0
    /\ strategy = "fill_mean"
    /\ pandas \in PandasVersions
    /\ stage = "fill_called"
    /\ cerror = None
    /\ board = None

\* cleaner.handle_missing_values(df)
FillReturn ==
    /\ stage = "fill_called"
    /\ frame' = HandleMissingValues(frame, strategy)
    /\ stage' = "fill_returned"
    /\ UNCHANGED <<df0, strategy, pandas, cerror, board>>
    /\ UNCHANGED <<extractVars, columnVars, toolVars>>

FillNext == FillReturn

SpecFill == FillInit /\ [][FillNext]_vars

\* of the values that occur most often in the column, the one met first
FirstEncountered(cells) ==
    LET present == DropNa(cells)
        Freq(x) == Cardinality({i \in 1..Len(present) : present[i] = x})
        tops == {j \in 1..Len(present) : \A k \in 1..Len(present) : Freq(present[k]) <= Freq(present[j])}
    IN  present[CHOOSE j \in tops : \A k \in tops : j <= k]

\* C27: with fill_mean every null of a numeric column becomes the mean of
\* the column's values and every null of a categorical column becomes the
\* column's most frequent value, the first one met in the column when
\* several values are equally frequent; the other values stay.
C27_FillMeanAndFirstMode ==
    stage = "fill_returned" =>
        LET amounts == df0.cols[1].cells
            labels == df0.cols[2].cells
            known == DropNa(amounts)
        IN  /\ \A i \in 1..Len(amounts) :
                  IF IsNull(amounts[i]) /\ known # <<>>
                  THEN /\ frame.cols[1].cells[i].tag = "num"
                       /\ Len(known) * frame.cols[1].cells[i].v <= Sum(known)
                       /\ Sum(known) < Len(known) * (frame.cols[1].cells[i].v + 1)
                  ELSE frame.cols[1].cells[i] = amounts[i]
            /\ \A i \in 1..Len(labels) :
                  frame.cols[2].cells[i] =
                      IF IsNull(labels[i]) /\ DropNa(labels) # <<>>
                      THEN FirstEncountered(labels)
                      ELSE labels[i]

----------------------------------------------------------------------------
(* The keywords of an endpoint call on their way to the vendor connector. *)
(* A call is followed by the names of its keyword arguments, in order.    *)

\* the parameters of the four vendor connectors; none takes **kwargs
VendorParameters(src, auth) ==
    CASE src = "tableau" /\ auth = "private" ->
            {"server_url", "pat_name", "pat_secret", "site", "use_server_version"}
      [] src = "tableau" /\ auth = "public" -> {"public_url"}
      [] src = "powerbi" /\ auth = "private" ->
            {"workspace_id_or_url", "tenant_id", "client_id", "client_secret", "workspace_id"}
      [] src = "powerbi" /\ auth = "public" -> {"embed_url"}
      [] OTHER -> {}

\* their parameters without a default
RequiredParameters(src, auth) ==
    VendorParameters(src, auth) \ {"site", "use_server_version", "workspace_id"}

\* the except branch of connect_bi_dashboard: str(e) of a TypeError names
\* the keyword
ConnectException(src, auth, message, keyword) ==
    ConnFailed(src, auth, Dict([type |-> "exception", message |-> message, keyword |-> keyword]))

\* connect_bi_dashboard(source=src, auth_type=auth, **keywords): url is a
\* parameter of its own and is put back into kwargs at line 42, so the
\* vendor connector is called with every other keyword and then url; a url
\* the caller gives is one of a Tableau dashboard.  What the vendor
\* connector answers once the call binds is up to the server.
ConnectBiDashboard(src, auth, keywords) ==
    LET detected == IF src # "" THEN src
                    ELSE IF \E i \in 1..Len(keywords) : keywords[i] = "url" THEN "tableau"
                    ELSE "undetected"
        passed == SelectSeq(keywords, LAMBDA k : k # "url") \o <<"url">>
        unexpected == SelectSeq(passed, LAMBDA k : k \notin VendorParameters(detected, auth))
        missing == RequiredParameters(detected, auth) \ {passed[i] : i \in 1..Len(passed)}
    IN  IF detected = "undetected"
        THEN {ConnectException(src, auth, "No URL provided for BI source detection.", "")}
        ELSE IF detected \notin {"powerbi", "tableau"}
        THEN {ConnectException(detected, auth, "Unsupported source", "")}
        ELSE IF auth \notin {"private", "public"}
        THEN {ConnectException(detected, auth, "Unsupported auth_type", "")}
        ELSE IF unexpected # <<>>
        THEN {ConnectException(detected, auth, "got an unexpected keyword argument", Head(unexpected))}
        ELSE IF missing # {}
        THEN {ConnectException(detected, auth, "missing required positional argument", "")}
        ELSE {ConnSuccess(detected, auth)} \cup {ConnFailed(detected, auth, e) : e \in ConnErrors}

\* extract_dashboard(source=, auth_type=, drill_state=ds, **keywords) on
\* the site: every keyword goes on to connect_bi_dashboard (line 36), the
\* adapters get the ones picked by name
ExtractWithKeywords(st, ds, kw, keywords) ==
    LET src == st.source
        auth == st.auth_type
        m == Dispatch(src, auth)
        answers == ConnectBiDashboard(src, auth, keywords)
    IN  {FailResult(src, auth, c.error) : c \in {r \in answers : ConnectionFailed(r)}}
        \cup (IF \A r \in answers : ConnectionFailed(r) THEN {}
              ELSE IF m = "none"
                   THEN {FailResult(src, auth, Str("Unsupported source/auth_type combination."))}
              ELSE IF ~Binds(m)
                   THEN {FailResult(src, auth, Str("got an unexpected keyword argument"))}
              ELSE {EnsureUnifiedSchema(r, src, auth, ds) : r \in SiteResults(st, m, UseOcr(kw), ds)})

\* the keyword arguments a client gives next to source and auth_type
CallerKeywords ==
    {<<>>, <<"public_url">>, <<"embed_url">>, <<"url">>, <<"url", "public_url">>,
     <<"public_url", "use_ocr">>,
     <<"server_url", "pat_name", "pat_secret">>,
     <<"workspace_id_or_url", "tenant_id", "client_id", "client_secret">>}

KeywordSites ==
    {[source |-> src, auth_type |-> auth, page |-> BlankPage] :
        src \in {"tableau", "powerbi", ""}, auth \in {"public", "private"}}

KeywordCalls ==
    {[op |-> o, target |-> "f1", arg |-> Str("x"), keywords |-> k] :
        o \in {"apply_filter", "highlight_data", "clear_filter", "refresh_dashboard"},
        k \in CallerKeywords}

\* the keywords the endpoint adds in its second call of extract_dashboard
\* and that reach **kwargs there (drill_state is a parameter of its own)
AddedKeywords(op) ==
    CASE op = "apply_filter" -> <<"filters">>
      [] op = "clear_filter" -> <<"filters">>
      [] op = "highlight_data" -> <<"highlights">>
      [] op = "refresh_dashboard" -> <<"filters", "highlights">>

KeywordInit ==
    /\ site \in KeywordSites
    /\ tpc = "idle"
    /\ call = None
    /\ dashboard = None
    /\ sent = None
    /\ response = None
    /\ prev = None
    /\ race = None
    /\ ExtractorOff
    /\ ColumnsOff
    /\ CleanerOff

\* a request arrives
KeywordCall(c) ==
    /\ tpc = "idle"
    /\ race = None
    /\ call = None
    /\ call' = c
    /\ tpc' = "connecting"
    /\ UNCHANGED <<site, dashboard, sent, response, prev, race, extractVars, columnVars, cleanVars>>

\* dashboard = extractor.extract_dashboard(source=, auth_type=, **kwargs)
KeywordExtract ==
    /\ tpc = "connecting"
    /\ dashboard' \in ExtractWithKeywords(site, None, ToolKwargs, call.keywords)
    /\ tpc' = "merging"
    /\ UNCHANGED <<site, call, sent, response, prev, race, extractVars, columnVars, cleanVars>>

\* the rest of the endpoint: the lookup, and the second extraction with
\* the added keyword in front of **kwargs
KeywordReextract ==
    /\ tpc = "merging"
    /\ LET patch == CASE call.op = "apply_filter" -> FilterPatch(dashboard, call.target, call.arg)
                      [] call.op = "highlight_data" -> HighlightPatch(dashboard, call.target, call.arg)
                      [] call.op = "clear_filter" -> ClearPatch(dashboard, call.target)
                      [] OTHER -> [kind |-> "ok"]
           what == IF call.op = "apply_filter" THEN "Filter" ELSE "Component"
           keywords == AddedKeywords(call.op) \o call.keywords
       IN  CASE patch.kind = "raise" -> ToolRaises(patch.exc)
             [] patch.kind = "notfound" -> ToolReturns(NotFound(what, call.target))
             [] patch.kind = "ok" ->
                   \E again \in ExtractWithKeywords(site, None, ToolKwargs, keywords) :
                      /\ sent' = [kw |-> "keywords", value |-> keywords]
                      /\ response' = Success(IF call.op = "apply_filter"
                                             THEN [again EXCEPT !.filters = List(patch.items)]
                                             ELSE again)
                      /\ tpc' = "returned"
    /\ UNCHANGED <<site, call, dashboard, prev, race, extractVars, columnVars, cleanVars>>

KeywordNext ==
    \/ \E c \in KeywordCalls : KeywordCall(c)
    \/ KeywordExtract
    \/ KeywordReextract

SpecKeywords == KeywordInit /\ [][KeywordNext]_vars

\* the endpoint made its second extraction
Reextraction == tpc = "returned" /\ sent # None /\ sent.kw = "keywords"

\* the error of a failed extraction names keyword k as not accepted
RejectedKeyword(d, k) ==
    /\ d.status = "failed"
    /\ IsDict(d.error)
    /\ "keyword" \in DOMAIN d.error.f
    /\ d.error.f.keyword = k

----------------------------------------------------------------------------
(* The frame of the drill endpoints *)

====
